---- MODULE Spec2Model ----
(***************************************************************************)
(* DockerGraphBot: the topology extraction (docker_info.DockerInfo and     *)
(* build.GraphBuilder.__get_containers), the graph construction            *)
(* (build.GraphBuilder) and the per-host driver (render.GraphBot.build).   *)
(*                                                                         *)
(* A Python str is a sequence of one-character strings, so that            *)
(* concatenation, "in", split and replace are computed and not assumed.    *)
(* None is the one-element sequence <<"None">>, which no str equals.       *)
(***************************************************************************)
EXTENDS Integers, Sequences, FiniteSets, TLC

VARIABLES
    di_obj,       \* a docker_info.ContainerInfos object: its __backend_port
    gb_obj,       \* a build.ContainerInfos object: its __backend_port
    set_arg,      \* the value handed to the last backend_port assignment
    engine,       \* what docker_client.containers.list() answers, in its order
    reorders,     \* how often the engine changed its enumeration order
    di_containers,          \* DockerInfo.__containers
    di_traefik_container,   \* DockerInfo.traefik_container
    di_traefik_source_port, \* DockerInfo.traefik_source_port
    di_warnings,  \* the warnings logged by the last update_containers call
    di_raised,    \* the exception the last update_containers call ended with
    di_listed,    \* whether update_containers was called at least once
    di_get_queries, \* how often a read of containers called update_containers
    gb_config,    \* GraphBuilder: color_scheme, host_label, host_name, exclude
    gb_traefik,   \* GraphBuilder.traefik
    gb_graph,     \* GraphBuilder.__graph
    gb_running,   \* what the last __get_containers call returned
    gb_warnings,  \* the warnings logged by the last read of graph
    gb_raised,    \* the exception the last read of graph ended with
    gb_reads,     \* how often the graph property was read
    bot_config,   \* GraphBot.config: hosts, merge, color_scheme, actions
    bot_env,      \* for each configured host, what its engine answers
    bot_pc,       \* where GraphBot.build is
    bot_i,        \* the index of the next host of the loop of build
    bot_graphs,   \* the local dict graphs of build
    bot_log,      \* for each host processed, how its pipeline ended
    bot_handed,   \* the dict handed to __render_graph
    bot_rendered, \* the render calls made, in order
    bot_files,    \* GraphBot.__generated_files
    bot_uploaded, \* the upload calls made by __post_actions, in order
    gs_element,   \* the element kind a builder asks __get_style for
    gs_scheme,    \* the colour keys of the color_scheme of that builder
    gs_style,     \* how the __get_style call ended
    gs_host       \* what the loop of GraphBot.build did with that builder's host

setterVars == <<di_obj, gb_obj, set_arg>>
infoVars == <<di_containers, di_traefik_container, di_traefik_source_port,
              di_warnings, di_raised, di_listed, di_get_queries>>
builderVars == <<gb_config, gb_traefik, gb_graph, gb_running, gb_warnings,
                 gb_raised, gb_reads>>
botVars == <<bot_config, bot_env, bot_pc, bot_i, bot_graphs, bot_log,
             bot_handed, bot_rendered, bot_files, bot_uploaded>>
styleVars == <<gs_element, gs_scheme, gs_style, gs_host>>
vars == <<di_obj, gb_obj, set_arg, engine, reorders, di_containers,
          di_traefik_container, di_traefik_source_port, di_warnings,
          di_raised, di_listed, di_get_queries, gb_config, gb_traefik, gb_graph, gb_running,
          gb_warnings, gb_raised, gb_reads, bot_config, bot_env, bot_pc,
          bot_i, bot_graphs, bot_log, bot_handed, bot_rendered, bot_files,
          bot_uploaded, gs_element, gs_scheme, gs_style, gs_host>>

(***************************************************************************)
(* Python values and str operations                                        *)
(***************************************************************************)
None == <<"None">>

\* s[i:i+len(t)] == t  (i is 1-based)
StartsAt(s, t, i) ==
    /\ i >= 1
    /\ i + Len(t) - 1 <= Len(s)
    /\ \A k \in 1..Len(t) : s[i + k - 1] = t[k]

\* the least member of a set of positions, 0 for the empty set
FirstOf(hits) ==
    IF hits = {} THEN 0 ELSE CHOOSE i \in hits : \A j \in hits : i <= j

\* s.find(t), 1-based; 0 when t does not occur in s
Find(s, t) == FirstOf({ i \in 1..(Len(s) + 1) : StartsAt(s, t, i) })

\* t in s
StrIn(t, s) == \E i \in 1..(Len(s) + 1) : StartsAt(s, t, i)

\* s cut at an occurrence of sep at i (i = 0: no occurrence)
SplitAt(s, sep, i) ==
    IF i = 0 THEN <<s>>
    ELSE <<SubSeq(s, 1, i - 1), SubSeq(s, i + Len(sep), Len(s))>>

\* s.split(sep, 1): a list of one or two parts
Split1(s, sep) == SplitAt(s, sep, Find(s, sep))

RECURSIVE ReplaceFrom(_, _, _, _)
\* s.replace(old, new) with the leftmost occurrence of old at i
ReplaceFrom(s, old, new, i) ==
    IF i = 0 THEN s
    ELSE SubSeq(s, 1, i - 1) \o new
         \o ReplaceFrom(SubSeq(s, i + Len(old), Len(s)), old, new,
                         Find(SubSeq(s, i + Len(old), Len(s)), old))

\* s.replace(old, new), old non-empty: leftmost, non-overlapping
Replace(s, old, new) == ReplaceFrom(s, old, new, Find(s, old))

(***************************************************************************)
(* str literals of the source                                              *)
(***************************************************************************)
SLASH == <<"/">>
TCP_SUFFIX == <<"/", "t", "c", "p">>
TRAEFIK_DEFAULT_PORT == <<"8", "0", "/", "t", "c", "p">>
TRAEFIK_PORT == <<"8", "0", "/", "t", "c", "p">>

(***************************************************************************)
(* ContainerInfos.backend_port setter (both modules define the same one)   *)
(***************************************************************************)
\* a setter that forgets the suffix
DI_backend_port_setter_NoSuffix(value) == value

DI_backend_port_setter(value) ==
    IF value # None /\ ~StrIn(SLASH, value) THEN value \o TCP_SUFFIX ELSE value

GB_backend_port_setter(value) ==
    IF value # None /\ ~StrIn(SLASH, value) THEN value \o TCP_SUFFIX ELSE value

(***************************************************************************)
(* dict and list helpers.  A dict is the sequence of its <<key, value>>    *)
(* items in insertion order, keys distinct.                                *)
(***************************************************************************)
Range(seq) == { seq[i] : i \in 1..Len(seq) }

\* d.get(key): the value, or None
DictGet(d, key) ==
    LET hits == { i \in 1..Len(d) : d[i][1] = key }
    IN  IF hits = {} THEN None ELSE d[CHOOSE i \in hits : TRUE][2]

HasKey(d, key) == \E i \in 1..Len(d) : d[i][1] = key

\* d[key].update(values) on a defaultdict(set)
DictSetUpdate(d, key, values) ==
    IF HasKey(d, key)
    THEN [i \in 1..Len(d) |->
            IF d[i][1] = key THEN <<key, d[i][2] \cup values>> ELSE d[i]]
    ELSE Append(d, <<key, values>>)

(***************************************************************************)
(* Label keys.  A key is an atom; the two regular expressions of           *)
(* update_containers are evaluated on the keys of LabelKeys.               *)
(***************************************************************************)
K_FRONTEND_RULE == "traefik.frontend.rule"
K_ROUTER_RULE == "traefik.http.routers.web.rule"
K_SERVICE_PORT == "traefik.http.services.web.loadbalancer.server.port"
K_SERVICE_SCHEME == "traefik.http.services.web.loadbalancer.server.scheme"
K_PORT == "traefik.port"

\* the keys in the order the engine's JSON answer lists them (sorted)
LabelKeys == <<K_FRONTEND_RULE, K_ROUTER_RULE, K_SERVICE_PORT,
               K_SERVICE_SCHEME, K_PORT>>

\* re.compile('traefik.http.routers.*.rule').match(label)
MatchRouterRule(label) == label = K_ROUTER_RULE

\* re.compile('traefik.http.services.*.loadbalancer.server.port').match(label)
MatchServicePort(label) == label = K_SERVICE_PORT

\* the backquote character
BQ == "BQ"

S_HOST_COLON == <<"H", "o", "s", "t", ":">>
S_PATH_COLON == <<"P", "a", "t", "h", ":">>
S_SEMI_PATH_COLON == <<";", "P", "a", "t", "h", ":">>
S_HOST_OPEN == <<"H", "o", "s", "t", "(", BQ>>
S_CLOSE == <<BQ, ")">>
S_COLON == <<":">>
S_TRAEFIK == <<"t", "r", "a", "e", "f", "i", "k">>

\* the text of rest before the first backquote, close parenthesis (at j)
HostGroup(rest, j) == IF j = 0 THEN None ELSE SubSeq(rest, 1, j - 1)

\* the match of the pattern whose opening is at i
HostMatch(value, i) ==
    IF i = 0 THEN None
    ELSE HostGroup(SubSeq(value, i + Len(S_HOST_OPEN), Len(value)),
                   Find(SubSeq(value, i + Len(S_HOST_OPEN), Len(value)), S_CLOSE))

\* re.search of the pattern Host, open parenthesis, backquote, shortest
\* text, backquote, close parenthesis: group(1), or None without a match
SearchHost(value) == HostMatch(value, Find(value, S_HOST_OPEN))

(***************************************************************************)
(* docker_info.ContainerInfos                                              *)
(***************************************************************************)
ValueError == <<"ValueError">>

\* docker_info.ContainerInfos.__init__
DI_ContainerInfos(name) ==
    [name |-> name, image |-> <<>>, ports |-> <<>>, networks |-> {},
     links |-> {}, bind_mounts |-> <<>>, volumes |-> <<>>,
     backend_port |-> None, url |-> <<>>]

\* lines 84-86 on the parts of value.split(';Path:', 1): ValueError when
\* the tuple assignment "value, suffix = ..." gets one part
DI_url_parts(parts) ==
    IF Len(parts) # 2 THEN ValueError
    ELSE Replace(parts[1], S_HOST_COLON, <<>>) \o parts[2]

\* the url setter: the stored value, or ValueError
DI_url_setter(value) ==
    IF value = None THEN None
    ELSE IF StrIn(S_PATH_COLON, value)
         THEN DI_url_parts(Split1(value, S_SEMI_PATH_COLON))
         ELSE Replace(value, S_HOST_COLON, <<>>)

(***************************************************************************)
(* DockerInfo.update_containers, one container of the listing              *)
(***************************************************************************)
RECURSIVE DI_ports_SkipUnpublished(_, _, _)
\* a loop that leaves an unpublished port out of the dict
DI_ports_SkipUnpublished(Ports, i, acc) ==
    IF i > Len(Ports) THEN acc
    ELSE DI_ports_SkipUnpublished(Ports, i + 1,
            IF Ports[i][2] # None
            THEN DictSetUpdate(acc, Ports[i][1], Range(Ports[i][2]))
            ELSE acc)

RECURSIVE DI_ports(_, _, _)
\* lines 145-150: ports[exposed_port].update(host ports, or nothing)
DI_ports(Ports, i, acc) ==
    IF i > Len(Ports) THEN acc
    ELSE DI_ports(Ports, i + 1,
            DictSetUpdate(acc, Ports[i][1],
                IF Ports[i][2] # None THEN Range(Ports[i][2]) ELSE {}))

\* lines 159-162 for one label: the url after it
DI_router_label(label, urls, url) ==
    IF MatchRouterRule(label) /\ urls # None THEN DI_url_setter(urls) ELSE url

RECURSIVE DI_router_url(_, _, _)
\* lines 157-162: every per-router label with a Host rule sets the url;
\* url is the value so far (None, a str, or ValueError once raised)
DI_router_url(labels, i, url) ==
    IF i > Len(labels) \/ url = ValueError THEN url
    ELSE DI_router_url(labels, i + 1,
            DI_router_label(labels[i][1], SearchHost(labels[i][2]), url))

\* a pass that reads the per-router labels whatever the frontend rule gave
DI_url_v2_RouterOverrides(labels, v1) ==
    IF v1 = ValueError \/ DI_router_url(labels, 1, None) = None THEN v1
    ELSE DI_router_url(labels, 1, None)

\* line 155: the per-router labels are read when the url is None
DI_url_v2(labels, v1) ==
    IF v1 = None THEN DI_router_url(labels, 1, None) ELSE v1

\* lines 153-162
DI_url(labels) ==
    DI_url_v2(labels, DI_url_setter(DictGet(labels, K_FRONTEND_RULE)))

\* lines 174-183 for one label: [port, warned] after it
DI_service_label(port, warned) ==
    [port |-> port, warned |-> warned \/ port = None]

RECURSIVE DI_service_port(_, _, _)
\* lines 173-183: each label in turn assigns backend_port; acc is
\* [port, warned]
DI_service_port(labels, i, acc) ==
    IF i > Len(labels) THEN acc
    ELSE DI_service_port(labels, i + 1,
            DI_service_label(
                IF MatchServicePort(labels[i][1])
                THEN DI_backend_port_setter(labels[i][2])
                ELSE DI_backend_port_setter(TRAEFIK_DEFAULT_PORT),
                acc.warned))

\* lines 170-185 with backend_port = cont.labels.get('traefik.port')
DI_backend_port_from(labels, backend_port) ==
    IF backend_port = None
    THEN DI_service_port(labels, 1, [port |-> None, warned |-> FALSE])
    ELSE [port |-> DI_backend_port_setter(backend_port), warned |-> FALSE]

\* lines 167-185: [port, warned]
DI_backend_port(labels, url) ==
    IF url = None THEN [port |-> None, warned |-> FALSE]
    ELSE DI_backend_port_from(labels, DictGet(labels, K_PORT))

\* link.split(':')[0]
LinkName(link) == Split1(link, S_COLON)[1]

RECURSIVE DI_networks(_, _, _)
\* lines 188-196: acc is [networks, links]
DI_networks(Networks, i, acc) ==
    IF i > Len(Networks) THEN acc
    ELSE DI_networks(Networks, i + 1,
            [networks |-> acc.networks \cup {Networks[i][1]},
             links |-> acc.links \cup
                (IF Networks[i][2] # None
                 THEN { LinkName(l) : l \in Range(Networks[i][2]) }
                 ELSE {})])

\* a classification in which a later mount of a source replaces the earlier
DI_mount_Overwrite(m, acc) ==
    IF m.Type = "bind"
    THEN [acc EXCEPT !.bind_mounts =
            Append(SelectSeq(@, LAMBDA item : item[1] # m.Source),
                   <<m.Source, {m.Destination}>>)]
    ELSE IF m.Type = "volume"
    THEN [acc EXCEPT !.volumes =
            Append(SelectSeq(@, LAMBDA item : item[1] # m.Name),
                   <<m.Name, {m.Destination}>>)]
    ELSE [acc EXCEPT !.unknown = TRUE]

\* lines 200-206 for one mount
DI_mount(m, acc) ==
    IF m.Type = "bind"
    THEN [acc EXCEPT !.bind_mounts = DictSetUpdate(@, m.Source, {m.Destination})]
    ELSE IF m.Type = "volume"
    THEN [acc EXCEPT !.volumes = DictSetUpdate(@, m.Name, {m.Destination})]
    ELSE [acc EXCEPT !.unknown = TRUE]

RECURSIVE DI_mounts(_, _, _)
\* lines 199-206: acc is [bind_mounts, volumes, unknown]
DI_mounts(Mounts, i, acc) ==
    IF i > Len(Mounts) THEN acc
    ELSE DI_mounts(Mounts, i + 1, DI_mount(Mounts[i], acc))

Warning(kind, name) == [kind |-> kind, name |-> name]

\* the warning of line 136 for a container with several image tags
TagWarning(cont) ==
    IF Len(cont.tags) > 1 THEN {Warning("multiple_tags", cont.name)} ELSE {}

\* lines 132-206 once url, backend port, networks and mounts are read:
\* [info, warnings, raised]
DI_cont_fields(cont, url, backend, nets, mnts) ==
    IF url = ValueError
    THEN [info |-> DI_ContainerInfos(cont.name), warnings |-> TagWarning(cont),
          raised |-> "ValueError"]
    ELSE [info |-> [name |-> cont.name,
                    image |-> cont.tags[1],
                    ports |-> DI_ports(cont.Ports, 1, <<>>),
                    networks |-> nets.networks,
                    links |-> nets.links,
                    bind_mounts |-> mnts.bind_mounts,
                    volumes |-> mnts.volumes,
                    backend_port |-> backend.port,
                    url |-> url],
          warnings |-> TagWarning(cont)
             \cup (IF backend.warned
                   THEN {Warning("no_backend_port", cont.name)} ELSE {})
             \cup (IF mnts.unknown
                   THEN {Warning("unknown_mount", cont.name)} ELSE {}),
          raised |-> "none"]

\* the backend port of a url that was read without an exception
DI_cont_backend(cont, url) ==
    IF url = ValueError THEN [port |-> None, warned |-> FALSE]
    ELSE DI_backend_port(cont.labels, url)

\* lines 132-206 with the url read
DI_cont_url(cont, url) ==
    DI_cont_fields(cont, url, DI_cont_backend(cont, url),
        DI_networks(cont.Networks, 1, [networks |-> {}, links |-> {}]),
        DI_mounts(cont.Mounts, 1,
            [bind_mounts |-> <<>>, volumes |-> <<>>, unknown |-> FALSE]))

\* lines 132-206: the ContainerInfos of one listed container, as
\* [info, warnings, raised]
DI_cont_info(cont) == DI_cont_url(cont, DI_url(cont.labels))

\* lines 211-217 for a container whose info r was built: the state after
\* it, as [containers, traefik_container, traefik_source_port, warnings,
\* raised]
DI_append(acc, r, isTraefik) ==
    IF r.raised # "none"
    THEN [acc EXCEPT !.warnings = @ \cup r.warnings, !.raised = r.raised]
    ELSE IF isTraefik /\ Len(r.info.ports) = 0
    \* line 213: list(cont_info.ports)[0] of an empty dict
    THEN [acc EXCEPT !.warnings = @ \cup r.warnings,
                     !.traefik_container = r.info.name,
                     !.raised = "IndexError"]
    ELSE [acc EXCEPT
            !.warnings = @ \cup r.warnings,
            !.containers = Append(@, r.info),
            !.traefik_container = IF isTraefik THEN r.info.name ELSE @,
            !.traefik_source_port = IF isTraefik THEN r.info.ports[1][1] ELSE @]

\* line 211: cont_info.image.split(':')[0] == 'traefik'
DI_is_traefik(r) ==
    r.raised = "none" /\ Split1(r.info.image, S_COLON)[1] = S_TRAEFIK

\* lines 131-217 for one container of the listing
DI_one(acc, cont, r) == DI_append(acc, r, DI_is_traefik(r))

RECURSIVE DI_update(_, _, _)
\* lines 129-217: the loop over the listing; acc is [containers,
\* traefik_container, traefik_source_port, warnings, raised]
DI_update(listing, i, acc) ==
    IF i > Len(listing) \/ acc.raised # "none" THEN acc
    ELSE IF ~(listing[i].status = "running" /\ Len(listing[i].tags) > 0)
    THEN DI_update(listing, i + 1, acc)
    ELSE DI_update(listing, i + 1,
            DI_one(acc, listing[i], DI_cont_info(listing[i])))

(***************************************************************************)
(* build.ContainerInfos and GraphBuilder.__get_containers                  *)
(***************************************************************************)
\* build.ContainerInfos.url setter
GB_url_setter(value) ==
    IF value = None THEN None ELSE Replace(value, S_HOST_COLON, <<>>)

\* lines 441-452 with backend_port = cont.labels.get('traefik.port')
GB_backend_port_from(backend_port) ==
    IF backend_port = None
    THEN [port |-> GB_backend_port_setter(backend_port), warned |-> FALSE]
    ELSE [port |-> GB_backend_port_setter(TRAEFIK_PORT), warned |-> TRUE]

\* lines 440-452: [port, warned]
GB_backend_port(labels, url) ==
    IF url = None THEN [port |-> None, warned |-> FALSE]
    ELSE GB_backend_port_from(DictGet(labels, K_PORT))

RECURSIVE GB_networks(_, _, _)
\* lines 459-467: acc is [network, links]; the last network stays
GB_networks(Networks, i, acc) ==
    IF i > Len(Networks) THEN acc
    ELSE GB_networks(Networks, i + 1,
            [network |-> Networks[i][1],
             links |-> acc.links \cup
                (IF Networks[i][2] # None
                 THEN { LinkName(l) : l \in Range(Networks[i][2]) }
                 ELSE {})])

\* lines 428-433: the ports dict (the loop of docker_info lines 145-150)
GB_ports(Ports) == DI_ports(Ports, 1, <<>>)

\* lines 414-476 once url, backend port and networks are read:
\* [info, warnings]
GB_cont_fields(cont, url, backend, nets) ==
    [info |-> [name |-> cont.name,
               image |-> cont.tags[1],
               ports |-> GB_ports(cont.Ports),
               network |-> nets.network,
               links |-> nets.links,
               bind_mounts |-> {},
               volumes |-> <<>>,
               backend_port |-> backend.port,
               url |-> url],
     warnings |-> TagWarning(cont)
        \cup (IF backend.warned
              THEN {Warning("no_backend_port", cont.name)} ELSE {})
        \cup (IF Len(cont.Networks) > 1
              THEN {Warning("multiple_networks", cont.name)} ELSE {})]

\* lines 414-476 with the url read
GB_cont_url(cont, url) ==
    GB_cont_fields(cont, url, GB_backend_port(cont.labels, url),
        GB_networks(cont.Networks, 1, [network |-> <<>>, links |-> {}]))

\* lines 414-476: the ContainerInfos of one listed container
GB_cont_info(cont) ==
    GB_cont_url(cont, GB_url_setter(DictGet(cont.labels, K_FRONTEND_RULE)))

\* lines 482-484: some image tag names the traefik image
GB_is_traefik(cont) ==
    \E t \in 1..Len(cont.tags) : Split1(cont.tags[t], S_COLON)[1] = S_TRAEFIK

\* lines 411-413
GB_selected(cont, exclude) ==
    cont.status = "running" /\ cont.name \notin exclude /\ Len(cont.tags) > 0

\* lines 411-484 for one container with its info r: acc after it
GB_one(acc, cont, selected, r) ==
    [running |-> IF selected THEN Append(acc.running, r.info) ELSE acc.running,
     warnings |-> IF selected THEN acc.warnings \cup r.warnings ELSE acc.warnings,
     traefik |-> IF GB_is_traefik(cont) THEN cont.name ELSE acc.traefik]

RECURSIVE GB_get_containers(_, _, _, _)
\* GraphBuilder.__get_containers: acc is [running, warnings, traefik]
GB_get_containers(listing, i, exclude, acc) ==
    IF i > Len(listing) THEN acc
    ELSE GB_get_containers(listing, i + 1, exclude,
            GB_one(acc, listing[i], GB_selected(listing[i], exclude),
                   GB_cont_info(listing[i])))

(***************************************************************************)
(* GraphBuilder: identifiers, labels, styles                               *)
(***************************************************************************)
S_UNDERSCORE == <<"_">>
S_CLUSTER == <<"c", "l", "u", "s", "t", "e", "r", "_">>

\* GraphBuilder.__node_name
GB_node_name(host_name, name, subname) ==
    (name \o S_UNDERSCORE \o host_name)
    \o (IF subname # None THEN S_COLON \o subname ELSE <<>>)

RECURSIVE GB_port_parts(_, _)
\* lines 391-392: '<port> port |' for every port
GB_port_parts(ports, i) ==
    IF i > Len(ports) THEN <<>>
    ELSE (<<"<">> \o ports[i] \o <<">", " ">> \o ports[i] \o <<" ", "|">>)
         \o GB_port_parts(ports, i + 1)

\* label[:-1]
DropLast(s) == SubSeq(s, 1, Len(s) - 1)

\* the label with the separator after the last port left in
GB_record_label_KeepBar(name, ports) ==
    (<<"{", " ", "<">> \o name \o <<">", " ">> \o name \o <<" ", "}">>)
    \o (IF Len(ports) > 0
        THEN <<" ", "|", " ", "{", " ">> \o GB_port_parts(ports, 1) \o <<" ", "}">>
        ELSE <<>>)

\* GraphBuilder.__record_label
GB_record_label(name, ports) ==
    (<<"{", " ", "<">> \o name \o <<">", " ">> \o name \o <<" ", "}">>)
    \o (IF Len(ports) > 0
        THEN <<" ", "|", " ", "{", " ">> \o DropLast(GB_port_parts(ports, 1))
             \o <<" ", "}">>
        ELSE <<>>)

\* list(d): the keys of a dict in order
DictKeys(d) == [i \in 1..Len(d) |-> d[i][1]]

\* the colour keys GraphBuilder.__get_style reads for an element kind
StyleKeys(graph_element) ==
    CASE graph_element = "TRAEFIK" -> {"traefik", "bright_text"}
      [] graph_element = "PORT" -> {"port", "bright_text"}
      [] graph_element = "IMAGE" -> {"image"}
      [] graph_element = "LINK" -> {"link"}
      [] graph_element = "CONTAINER" -> {"dark_text", "container"}
      [] graph_element = "NETWORK" -> {"network"}
      [] graph_element = "HOST" -> {"host"}
      [] graph_element = "VOLUME" -> {"volume"}
      [] graph_element = "BIND_MOUNT" -> {"bind_mount"}

\* GraphBuilder.__get_style raises KeyError for a colour the scheme lacks
GB_style_raises(color_scheme, graph_element) ==
    ~(StyleKeys(graph_element) \subseteq color_scheme)

\* the members of the enum GraphElement
GraphElement == {"TRAEFIK", "PORT", "IMAGE", "LINK", "CONTAINER", "NETWORK",
                 "HOST", "VOLUME", "BIND_MOUNT"}

\* a literal attribute value, and the colour the scheme holds for a key
Literal(text) == <<"literal", text>>
SchemeColor(key) == <<"color_scheme", key>>

\* lines 291-342: the style dict of a member of GraphElement
GB_style_dict(graph_element) ==
    CASE graph_element = "TRAEFIK" ->
           << <<"arrowhead", Literal("none")>>,
              <<"color", SchemeColor("traefik")>>,
              <<"fillcolor", SchemeColor("traefik")>>,
              <<"fontcolor", SchemeColor("bright_text")>> >>
      [] graph_element = "PORT" ->
           << <<"shape", Literal("diamond")>>,
              <<"fillcolor", SchemeColor("port")>>,
              <<"fontcolor", SchemeColor("bright_text")>> >>
      [] graph_element = "IMAGE" ->
           << <<"style", Literal("filled,rounded")>>,
              <<"color", SchemeColor("image")>>,
              <<"fillcolor", SchemeColor("image")>> >>
      [] graph_element = "LINK" ->
           << <<"color", SchemeColor("link")>> >>
      [] graph_element = "CONTAINER" ->
           << <<"color", SchemeColor("dark_text")>>,
              <<"fillcolor", SchemeColor("container")>>,
              <<"fontcolor", SchemeColor("dark_text")>> >>
      [] graph_element = "NETWORK" ->
           << <<"style", Literal("filled,rounded")>>,
              <<"color", SchemeColor("network")>>,
              <<"fillcolor", SchemeColor("network")>> >>
      [] graph_element = "HOST" ->
           << <<"style", Literal("filled,rounded")>>,
              <<"fillcolor", SchemeColor("host")>> >>
      [] graph_element = "VOLUME" ->
           << <<"style", Literal("filled,rounded")>>,
              <<"color", SchemeColor("volume")>>,
              <<"fillcolor", SchemeColor("volume")>> >>
      [] graph_element = "BIND_MOUNT" ->
           << <<"style", Literal("filled,rounded")>>,
              <<"color", SchemeColor("bind_mount")>>,
              <<"fillcolor", SchemeColor("bind_mount")>> >>

\* GraphBuilder.__get_style: the style dict, a KeyError of the indexing of
\* color_scheme, or the Exception of line 344
GB_get_style(color_scheme, graph_element) ==
    IF graph_element \notin GraphElement
    THEN [raised |-> "Exception", style |-> <<>>]
    ELSE IF GB_style_raises(color_scheme, graph_element)
    THEN [raised |-> "KeyError", style |-> <<>>]
    ELSE [raised |-> "none", style |-> GB_style_dict(graph_element)]

(***************************************************************************)
(* GraphBuilder.__build_graph.  The graph is [clusters, nodes, edges],     *)
(* each the sequence of what was added, in the order it was added.  The    *)
(* build is the sequence of its additions (ops): each asks __get_style     *)
(* for its element kind first; an addition is direct when it goes into     *)
(* self.__graph at once, and not when it goes into the host subgraph,      *)
(* which joins self.__graph when the with block of line 148 ends.          *)
(***************************************************************************)
RECURSIVE Flatten(_, _)
\* seqs[i] + seqs[i + 1] + ...: what a loop adds, turn after turn
Flatten(seqs, i) ==
    IF i > Len(seqs) THEN <<>> ELSE seqs[i] \o Flatten(seqs, i + 1)

RECURSIVE SetSeq(_)
\* the members of a set in the order a loop over it visits them
SetSeq(S) ==
    IF S = {} THEN <<>>
    ELSE <<CHOOSE x \in S : TRUE>> \o SetSeq(S \ {CHOOSE x \in S : TRUE})

ClusterOp(kind, name, label, parent) ==
    [style |-> kind, direct |-> FALSE, what |-> "cluster",
     item |-> [name |-> name, label |-> label, kind |-> kind, parent |-> parent]]

NodeOp(kind, direct, id, label, cluster) ==
    [style |-> kind, direct |-> direct, what |-> "node",
     item |-> [id |-> id, label |-> label, kind |-> kind, cluster |-> cluster]]

EdgeOp(kind, tail, head) ==
    [style |-> kind, direct |-> TRUE, what |-> "edge",
     item |-> [tail |-> tail, head |-> head, kind |-> kind]]

\* the name of the cluster of a network or an image
GB_cluster_name(b, name) == S_CLUSTER \o GB_node_name(b.host_name, name, None)

\* the container node put into the network cluster, without image cluster
GB_container_ops_NoImageCluster(b, cont) ==
    <<NodeOp("CONTAINER", FALSE,
             GB_node_name(b.host_name, cont.name, None),
             GB_record_label(cont.name, DictKeys(cont.ports)),
             <<GB_cluster_name(b, cont.network)>>)>>

\* lines 193-214: the image cluster, the container node, the URL node
GB_container_ops(b, cont) ==
    <<ClusterOp("IMAGE", GB_cluster_name(b, cont.image), cont.image,
                GB_cluster_name(b, cont.network)),
      NodeOp("CONTAINER", FALSE,
             GB_node_name(b.host_name, cont.name, None),
             GB_record_label(cont.name, DictKeys(cont.ports)),
             <<GB_cluster_name(b, cont.network), GB_cluster_name(b, cont.image)>>)>>
    \o (IF b.traefik # None /\ cont.url # None
        THEN <<NodeOp("TRAEFIK", FALSE,
                      GB_node_name(b.host_name, cont.url, None), cont.url,
                      <<GB_cluster_name(b, cont.network)>>)>>
        ELSE <<>>)

RECURSIVE GB_network_list(_, _, _)
\* lines 178-180: the keys of network_dict, in the order they were added
GB_network_list(running, i, acc) ==
    IF i > Len(running) THEN acc
    ELSE GB_network_list(running, i + 1,
            IF running[i].network \in Range(acc) THEN acc
            ELSE Append(acc, running[i].network))

\* lines 189-214 for the containers of one network
GB_containers_ops(b, containers) ==
    Flatten([k \in 1..Len(containers) |-> GB_container_ops(b, containers[k])], 1)

\* lines 184-216 for one network
GB_network_ops(b, running, network) ==
    <<ClusterOp("NETWORK", GB_cluster_name(b, network), network,
                S_CLUSTER \o b.host_label)>>
    \o GB_containers_ops(b, SelectSeq(running, LAMBDA cont : cont.network = network))

\* lines 183-216 for the networks of network_dict
GB_networks_ops(b, running, networks) ==
    Flatten([k \in 1..Len(networks) |-> GB_network_ops(b, running, networks[k])], 1)

\* GraphBuilder.__add_containers_by_network
GB_add_containers_by_network(b, running) ==
    GB_networks_ops(b, running, GB_network_list(running, 1, <<>>))

\* link edges between the nodes, without sub-identifier
GB_link_edges_NoSubNode(b, cont, links) ==
    [k \in 1..Len(links) |->
        EdgeOp("LINK", GB_node_name(b.host_name, cont.name, None),
               GB_node_name(b.host_name, links[k], None))]

\* lines 250-255 for the links of one container, in the order of the loop
GB_link_edges(b, cont, links) ==
    [k \in 1..Len(links) |->
        EdgeOp("LINK", GB_node_name(b.host_name, cont.name, cont.name),
               GB_node_name(b.host_name, links[k], links[k]))]

\* lines 235-255 for one container
GB_edges_of(b, cont) ==
    (IF b.traefik # None /\ cont.url # None
     THEN <<EdgeOp("TRAEFIK",
                   GB_node_name(b.host_name, b.traefik, TRAEFIK_PORT),
                   GB_node_name(b.host_name, cont.url, None)),
            EdgeOp("TRAEFIK",
                   GB_node_name(b.host_name, cont.url, None),
                   GB_node_name(b.host_name, cont.name, cont.backend_port))>>
     ELSE <<>>)
    \o GB_link_edges(b, cont, SetSeq(cont.links))

\* GraphBuilder.__add_edges_between_containers
GB_add_edges_between_containers(b, running) ==
    Flatten([k \in 1..Len(running) |-> GB_edges_of(b, running[k])], 1)

\* the node and the edge of the first host port only
GB_host_port_ops_FirstOnly(b, cont, exposed_port, host_ports) ==
    IF Len(host_ports) = 0 THEN <<>>
    ELSE <<NodeOp("PORT", TRUE,
                  GB_node_name(b.host_name, host_ports[1], None),
                  host_ports[1], <<>>),
           EdgeOp("PORT", GB_node_name(b.host_name, host_ports[1], None),
                  GB_node_name(b.host_name, cont.name, exposed_port))>>

\* lines 271-280 for the host ports of one exposed port, in the order of
\* the loop
GB_host_port_ops(b, cont, exposed_port, host_ports) ==
    Flatten([k \in 1..Len(host_ports) |->
                <<NodeOp("PORT", TRUE,
                         GB_node_name(b.host_name, host_ports[k], None),
                         host_ports[k], <<>>),
                  EdgeOp("PORT", GB_node_name(b.host_name, host_ports[k], None),
                         GB_node_name(b.host_name, cont.name, exposed_port))>>], 1)

\* lines 269-280 for one container
GB_port_mapping_of(b, cont) ==
    Flatten([k \in 1..Len(cont.ports) |->
                GB_host_port_ops(b, cont, cont.ports[k][1],
                                 SetSeq(cont.ports[k][2]))], 1)

\* GraphBuilder.__add_host_port_mapping
GB_add_host_port_mapping(b, running) ==
    Flatten([k \in 1..Len(running) |-> GB_port_mapping_of(b, running[k])], 1)

\* lines 148-159: the additions of __build_graph, in order
GB_build_ops(b, running) ==
    <<ClusterOp("HOST", S_CLUSTER \o b.host_label, b.host_label, None)>>
    \o GB_add_containers_by_network(b, running)
    \o GB_add_edges_between_containers(b, running)
    \o GB_add_host_port_mapping(b, running)

\* the items of a kind ("cluster", "node", "edge") among ops
OpItems(ops, what) ==
    LET sel == SelectSeq(ops, LAMBDA o : o.what = what)
    IN  [i \in 1..Len(sel) |-> sel[i].item]

\* a graph with the items of ops added
GraphPlus(graph, ops) ==
    [clusters |-> graph.clusters \o OpItems(ops, "cluster"),
     nodes |-> graph.nodes \o OpItems(ops, "node"),
     edges |-> graph.edges \o OpItems(ops, "edge")]

\* the additions that reached self.__graph when the addition at failed
\* raised KeyError (failed = 0: none raised, the host subgraph joined)
GB_graph_after(graph, ops, failed) ==
    IF failed = 0 THEN [graph |-> GraphPlus(graph, ops), raised |-> "none"]
    ELSE [graph |-> GraphPlus(graph,
                        SelectSeq(SubSeq(ops, 1, failed - 1), LAMBDA o : o.direct)),
          raised |-> "KeyError"]

\* the first addition whose style the colour scheme cannot give, or 0
GB_first_failure(ops, color_scheme) ==
    FirstOf({ i \in 1..Len(ops) : GB_style_raises(color_scheme, ops[i].style) })

\* __build_graph on the containers found: [graph, raised]
GB_build(graph, b, running) ==
    GB_graph_after(graph, GB_build_ops(b, running),
                   GB_first_failure(GB_build_ops(b, running), b.color_scheme))

(***************************************************************************)
(* Bounds                                                                  *)
(***************************************************************************)
MaxPortLen == 3

PortChars == {"8", "0", "/", "u"}

RECURSIVE StrUpTo(_, _)
\* all strings over alphabet of length at most n
StrUpTo(alphabet, n) ==
    IF n = 0 THEN { <<>> }
    ELSE LET shorter == StrUpTo(alphabet, n - 1)
         IN  shorter \cup { Append(s, c) : s \in shorter, c \in alphabet }

S8080 == <<"8", "0", "8", "0">>
S8080tcp == <<"8", "0", "8", "0", "/", "t", "c", "p">>
S8080udp == <<"8", "0", "8", "0", "/", "u", "d", "p">>

PortInputs == StrUpTo(PortChars, MaxPortLen) \cup {S8080, S8080udp, S8080tcp}

\* no style request was made
StyleIdle ==
    /\ gs_element = "HOST"
    /\ gs_scheme = {}
    /\ gs_style = [raised |-> "idle", style |-> <<>>]
    /\ gs_host = "idle"

\* DockerInfo.__init__
InfoIdle ==
    /\ di_containers = <<>>
    /\ di_traefik_container = <<>>
    /\ di_traefik_source_port = <<>>
    /\ di_warnings = {}
    /\ di_raised = "none"
    /\ di_listed = FALSE
    /\ di_get_queries = 0

EmptyGraph == [clusters |-> <<>>, nodes |-> <<>>, edges |-> <<>>]

\* no GraphBuilder was made
BuilderIdle ==
    /\ gb_config = [color_scheme |-> {}, host_label |-> <<>>,
                    host_name |-> <<>>, exclude |-> {}]
    /\ gb_traefik = None
    /\ gb_graph = EmptyGraph
    /\ gb_running = <<>>
    /\ gb_warnings = {}
    /\ gb_raised = "none"
    /\ gb_reads = 0

\* no GraphBot was made
BotIdle ==
    /\ bot_config = [hosts |-> <<>>, merge |-> FALSE, color_scheme |-> {},
                     actions |-> <<>>]
    /\ bot_env = <<>>
    /\ bot_pc = "none"
    /\ bot_i = 0
    /\ bot_graphs = <<>>
    /\ bot_log = <<>>
    /\ bot_handed = <<>>
    /\ bot_rendered = <<>>
    /\ bot_files = <<>>
    /\ bot_uploaded = <<>>

(***************************************************************************)
(* SpecSetter: assignments to ContainerInfos.backend_port                  *)
(***************************************************************************)
InitSetter ==
    /\ di_obj = [backend_port |-> None]
    /\ gb_obj = [backend_port |-> None]
    /\ set_arg = None
    /\ engine = <<>>
    /\ reorders = 0
    /\ InfoIdle
    /\ StyleIdle
    /\ BuilderIdle
    /\ BotIdle

\* docker_info: cont_info.backend_port = value
DISetBackendPort ==
    \E value \in PortInputs \cup {None} :
        /\ di_obj' = [di_obj EXCEPT !.backend_port = DI_backend_port_setter(value)]
        /\ gb_obj' = [gb_obj EXCEPT !.backend_port = GB_backend_port_setter(value)]
        /\ set_arg' = value
        /\ UNCHANGED <<engine, reorders, infoVars, builderVars, botVars, styleVars>>

\* assigning the property its own current value
ReassignBackendPort ==
    /\ di_obj.backend_port # None
    /\ di_obj' = [di_obj EXCEPT
                    !.backend_port = DI_backend_port_setter(di_obj.backend_port)]
    /\ gb_obj' = [gb_obj EXCEPT
                    !.backend_port = GB_backend_port_setter(gb_obj.backend_port)]
    /\ set_arg' = di_obj.backend_port
    /\ UNCHANGED <<engine, reorders, infoVars, builderVars, botVars, styleVars>>

NextSetter == DISetBackendPort \/ ReassignBackendPort

SpecSetter == InitSetter /\ [][NextSetter]_vars

(***************************************************************************)
(* The engine: what containers.list() answers.  A container is             *)
(* [name, status, tags, Ports, labels, Networks, Mounts]; Ports, labels    *)
(* and Networks are dicts in the order the engine enumerates them.         *)
(***************************************************************************)
MaxLabels == 3
MaxReorders == 1

N_WEB == <<"w", "e", "b">>
N_PROXY == <<"p", "r", "o", "x", "y">>
N_NET == <<"n", "e", "t">>
I_NGINX == <<"n", "g", "i", "n", "x">>
I_TRAEFIK_2 == <<"t", "r", "a", "e", "f", "i", "k", ":", "2">>

V_HOST_A_PATH == <<"H", "o", "s", "t", ":", "a", ";", "P", "a", "t", "h", ":", "/", "x">>
V_PATH_ONLY == <<"P", "a", "t", "h", ":", "/", "x">>
V_ROUTER_HOST_B == <<"H", "o", "s", "t", "(", BQ, "b", BQ, ")">>
V_ROUTER_PREFIX == <<"P", "a", "t", "h", "P", "r", "e", "f", "i", "x", "(", BQ, "/", "x", BQ, ")">>
V_90 == <<"9", "0">>
V_HTTP == <<"h">>

\* the values a label of each key takes
LabelValues(key) ==
    CASE key = K_FRONTEND_RULE -> {V_HOST_A_PATH, V_PATH_ONLY}
      [] key = K_ROUTER_RULE -> {V_ROUTER_HOST_B, V_ROUTER_PREFIX}
      [] key = K_SERVICE_PORT -> {V_90}
      [] key = K_SERVICE_SCHEME -> {V_HTTP}
      [] key = K_PORT -> {S8080}

RECURSIVE SortedSeq(_)
\* the members of a set of integers in increasing order
SortedSeq(S) ==
    IF S = {} THEN <<>>
    ELSE LET m == CHOOSE x \in S : \A y \in S : x <= y
         IN  <<m>> \o SortedSeq(S \ {m})

\* the label dicts with exactly n labels, keys in the engine's order
LabelDicts(n) ==
    UNION { LET idx == SortedSeq(K)
            IN  { [i \in 1..n |-> <<LabelKeys[idx[i]], f[idx[i]]>>] :
                    f \in { g \in [K -> UNION { LabelValues(LabelKeys[k]) : k \in K }] :
                              \A k \in K : g[k] \in LabelValues(LabelKeys[k]) } }
          : K \in { K \in SUBSET (1..Len(LabelKeys)) : Cardinality(K) = n } }

ImageTagChoices == { <<I_NGINX>>, <<I_TRAEFIK_2>> }
PortsChoices == { <<>>, << <<TRAEFIK_DEFAULT_PORT, <<S8080>> >> >> }

Container(name, tags, Ports, labels) ==
    [name |-> name, status |-> "running", tags |-> tags, Ports |-> Ports,
     labels |-> labels, Networks |-> << <<N_NET, None>> >>, Mounts |-> <<>>]

\* the containers of a name that carry n labels
Containers(name, n) ==
    { Container(name, t, p, l) :
        t \in ImageTagChoices, p \in PortsChoices, l \in LabelDicts(n) }

(***************************************************************************)
(* SpecInfo: a DockerInfo on an engine                                     *)
(***************************************************************************)
SetterIdle ==
    /\ di_obj = [backend_port |-> None]
    /\ gb_obj = [backend_port |-> None]
    /\ set_arg = None

\* a listing of at most two containers with at most MaxLabels labels
InitInfo ==
    /\ SetterIdle
    /\ \/ engine = <<>>
       \/ \E n1 \in 0..MaxLabels : \E c1 \in Containers(N_WEB, n1) :
            engine = <<c1>>
       \/ \E n1 \in 0..MaxLabels : \E n2 \in 0..(MaxLabels - n1) :
            \E c1 \in Containers(N_WEB, n1) : \E c2 \in Containers(N_PROXY, n2) :
                engine = <<c1, c2>>
    /\ reorders = 0
    /\ InfoIdle
    /\ StyleIdle
    /\ BuilderIdle
    /\ BotIdle

\* seq with the items at i and i + 1 exchanged
Swap(seq, i) ==
    [k \in 1..Len(seq) |->
        IF k = i THEN seq[i + 1] ELSE IF k = i + 1 THEN seq[i] ELSE seq[k]]

\* the engine lists its containers in another order
ReorderContainers ==
    /\ reorders < MaxReorders
    /\ \E i \in 1..(Len(engine) - 1) : engine' = Swap(engine, i)
    /\ reorders' = reorders + 1
    /\ UNCHANGED <<setterVars, infoVars, builderVars, botVars, styleVars>>

\* the engine lists the labels of one container in another order
ReorderLabels ==
    /\ reorders < MaxReorders
    /\ \E c \in 1..Len(engine) : \E i \in 1..(Len(engine[c].labels) - 1) :
          engine' = [engine EXCEPT ![c].labels = Swap(@, i)]
    /\ reorders' = reorders + 1
    /\ UNCHANGED <<setterVars, infoVars, builderVars, botVars, styleVars>>

\* the DockerInfo after a call that ended in r
DI_store(r) ==
    /\ di_containers' = r.containers
    /\ di_traefik_container' = r.traefik_container
    /\ di_traefik_source_port' = r.traefik_source_port
    /\ di_warnings' = r.warnings
    /\ di_raised' = r.raised
    /\ di_listed' = TRUE

\* DockerInfo.update_containers()
UpdateContainers ==
    /\ DI_store(DI_update(engine, 1,
            [containers |-> <<>>,
             traefik_container |-> di_traefik_container,
             traefik_source_port |-> di_traefik_source_port,
             warnings |-> {},
             raised |-> "none"]))
    /\ UNCHANGED <<setterVars, engine, reorders, di_get_queries, builderVars,
                   botVars, styleVars>>

NextInfo == UpdateContainers \/ ReorderContainers \/ ReorderLabels

SpecInfo == InitInfo /\ [][NextInfo]_vars

(***************************************************************************)
(* SpecAttrs: a DockerInfo on containers that differ in status, image      *)
(* tags, ports, networks and mounts                                        *)
(***************************************************************************)
N_LAN == <<"l", "a", "n">>
S8081 == <<"8", "0", "8", "1">>
S8080_TCP == <<"8", "0", "8", "0", "/", "t", "c", "p">>
L_DB == <<"d", "b">>
L_DB_ALIAS == <<"d", "b", ":", "s", "q", "l">>
P_SRV == <<"/", "s", "r", "v">>
P_A == <<"/", "a">>
P_B == <<"/", "b">>
VOL_DATA == <<"d", "a", "t", "a">>

\* image.tags: none, one, or two of which the second is the traefik image
AttrTags == << <<>>, <<I_NGINX>>, <<I_TRAEFIK_2>>, <<I_NGINX, I_TRAEFIK_2>> >>

\* NetworkSettings.Ports: no port, an unpublished port, a published port,
\* a port published on two host ports next to an unpublished one
AttrPorts ==
    << <<>>,
       << <<TRAEFIK_DEFAULT_PORT, None>> >>,
       << <<TRAEFIK_DEFAULT_PORT, <<S8080>> >> >>,
       << <<S8080_TCP, <<S8080, S8081>> >>, <<TRAEFIK_DEFAULT_PORT, None>> >> >>

\* NetworkSettings.Networks: one network, or two with links
AttrNetworks ==
    << << <<N_NET, None>> >>,
       << <<N_NET, <<L_DB_ALIAS>> >>, <<N_LAN, <<L_DB, N_PROXY>> >> >> >>

Mount(type, source, name, destination) ==
    [Type |-> type, Source |-> source, Name |-> name, Destination |-> destination]

\* attrs['Mounts']: none; one source bound twice; a source bound twice
\* with a volume and a tmpfs in between
AttrMounts ==
    << <<>>,
       <<Mount("bind", P_SRV, <<>>, P_A), Mount("bind", P_SRV, <<>>, P_B)>>,
       <<Mount("bind", P_SRV, <<>>, P_A),
         Mount("volume", <<"/", "v">>, VOL_DATA, P_A),
         Mount("tmpfs", <<>>, <<>>, P_B),
         Mount("bind", P_SRV, <<>>, P_B)>> >>

\* a listed container without labels
AttrContainer(name, status, tags, Ports, Networks, Mounts) ==
    [name |-> name, status |-> status, tags |-> tags, Ports |-> Ports,
     labels |-> <<>>, Networks |-> Networks, Mounts |-> Mounts]

\* the listing is [c1, c2] or a prefix of it
AttrListing(n, c1, c2) == SubSeq(<<c1, c2>>, 1, n)

\* DockerInfo.__init__ on a listing of at most two containers: the first
\* differs in every attribute, the second in status, tags and ports
InitAttrs ==
    /\ SetterIdle
    /\ \E n \in 0..2 :
       \E st1, st2 \in {"running", "exited"} :
       \E t1, t2 \in 1..Len(AttrTags) :
       \E p1 \in 1..Len(AttrPorts) : \E p2 \in {1, 3} :
       \E n1 \in 1..Len(AttrNetworks) :
       \E m1 \in 1..Len(AttrMounts) :
            engine = AttrListing(n,
                AttrContainer(N_WEB, st1, AttrTags[t1], AttrPorts[p1],
                              AttrNetworks[n1], AttrMounts[m1]),
                AttrContainer(N_PROXY, st2, AttrTags[t2], AttrPorts[p2],
                              AttrNetworks[1], AttrMounts[1]))
    /\ reorders = 0
    /\ InfoIdle
    /\ StyleIdle
    /\ BuilderIdle
    /\ BotIdle

NextAttrs == UpdateContainers \/ ReorderContainers

SpecAttrs == InitAttrs /\ [][NextAttrs]_vars

(***************************************************************************)
(* SpecPasses: a DockerInfo whose host changes between discovery passes    *)
(***************************************************************************)
\* a running container of the host stops
ContainerStops ==
    /\ \E c \in 1..Len(engine) :
          /\ engine[c].status = "running"
          /\ engine' = [engine EXCEPT ![c].status = "exited"]
    /\ UNCHANGED <<setterVars, reorders, infoVars, builderVars, botVars, styleVars>>

MaxGetQueries == 2

\* a read of the property DockerInfo.containers: update_containers is
\* called when the stored list is empty, and the stored list is returned
GetContainers ==
    /\ IF di_containers = <<>>
       THEN /\ di_get_queries < MaxGetQueries
            /\ DI_store(DI_update(engine, 1,
                    [containers |-> <<>>,
                     traefik_container |-> di_traefik_container,
                     traefik_source_port |-> di_traefik_source_port,
                     warnings |-> {},
                     raised |-> "none"]))
            /\ di_get_queries' = di_get_queries + 1
       ELSE UNCHANGED infoVars
    /\ UNCHANGED <<setterVars, engine, reorders, builderVars, botVars, styleVars>>

NextPasses == UpdateContainers \/ ContainerStops \/ GetContainers

SpecPasses == InitAttrs /\ [][NextPasses]_vars

(***************************************************************************)
(* SpecBuilder: one GraphBuilder on an engine, its graph property read     *)
(***************************************************************************)
MaxReads == 2

N_80 == <<"8", "0">>
H_C == <<"c">>
V_HOST_WEB == <<"H", "o", "s", "t", ":", "w", "e", "b">>
L_WEB_ALIAS == <<"w", "e", "b", ":", "d", "b">>

\* every colour key GraphBuilder.__get_style reads
AllColors == {"traefik", "bright_text", "port", "image", "link", "dark_text",
              "container", "network", "host", "volume", "bind_mount"}

\* the label dicts of a builder's container: a frontend rule, a legacy port
BuilderLabels ==
    { <<>>, << <<K_FRONTEND_RULE, V_HOST_WEB>> >>, << <<K_PORT, S8080>> >>,
      << <<K_FRONTEND_RULE, V_HOST_WEB>>, <<K_PORT, S8080>> >> }

\* one network, or two of which the last has a link
BuilderNetworks ==
    { << <<N_NET, None>> >>,
      << <<N_NET, None>>, << <<"l", "a", "n">>, <<L_WEB_ALIAS>> >> >> }

\* the containers of a name a builder may meet
BuilderContainers(name) ==
    { [name |-> name, status |-> st, tags |-> t, Ports |-> p, labels |-> l,
       Networks |-> n, Mounts |-> <<>>] :
        st \in {"running", "exited"}, t \in ImageTagChoices,
        p \in { <<>>, << <<TRAEFIK_PORT, <<N_80>> >> >> },
        l \in BuilderLabels, n \in BuilderNetworks }

\* the second container of a listing: on one network, without label or
\* with both
BuilderSeconds(name) ==
    { c \in BuilderContainers(name) :
        /\ Len(c.Networks) = 1
        /\ Len(c.labels) \in {0, 2} }

\* listings a builder may also meet: two containers bind-mounting one host
\* path; a proxy whose first exposed port is 8080/tcp in front of a routed
\* container; a container without image tag; a container with two tags; a
\* container with a port published twice and an unpublished port
BuilderListings ==
    << <<AttrContainer(N_WEB, "running", <<I_NGINX>>, <<>>, AttrNetworks[1],
                       <<Mount("bind", P_SRV, <<>>, P_A)>>),
         AttrContainer(N_80, "running", <<I_NGINX>>, <<>>, AttrNetworks[1],
                       <<Mount("bind", P_SRV, <<>>, P_B)>>)>>,
       <<AttrContainer(N_PROXY, "running", <<I_TRAEFIK_2>>,
                       << <<S8080_TCP, <<S8080>> >>, <<TRAEFIK_PORT, None>> >>,
                       AttrNetworks[1], <<>>),
         [AttrContainer(N_WEB, "running", <<I_NGINX>>, <<>>, AttrNetworks[1], <<>>)
            EXCEPT !.labels = << <<K_FRONTEND_RULE, V_HOST_WEB>> >>]>>,
       <<AttrContainer(N_WEB, "running", <<>>, <<>>, AttrNetworks[1], <<>>)>>,
       <<AttrContainer(N_WEB, "running", <<I_NGINX, I_TRAEFIK_2>>, <<>>,
                       AttrNetworks[2], <<>>)>>,
       <<AttrContainer(N_WEB, "running", <<I_NGINX>>, AttrPorts[4],
                       AttrNetworks[1], <<>>)>> >>

\* GraphBuilder.__init__ on a listing of at most two containers
InitBuilder ==
    /\ SetterIdle
    /\ InfoIdle
    /\ StyleIdle
    /\ BotIdle
    /\ reorders = 0
    /\ \/ engine = <<>>
       \/ \E c1 \in BuilderContainers(N_WEB) : engine = <<c1>>
       \/ \E c1 \in BuilderContainers(N_WEB) : \E c2 \in BuilderSeconds(N_80) :
            engine = <<c1, c2>>
       \/ \E l \in 1..Len(BuilderListings) : engine = BuilderListings[l]
    /\ \E exclude \in {{}, {N_80}} :
       \E color_scheme \in {AllColors, AllColors \ {"link"}, AllColors \ {"image"}} :
            gb_config = [color_scheme |-> color_scheme,
                         host_label |-> H_C \o <<" ", "(", "1", ")">>,
                         host_name |-> H_C,
                         exclude |-> exclude]
    /\ gb_traefik = None
    /\ gb_graph = EmptyGraph
    /\ gb_running = <<>>
    /\ gb_warnings = {}
    /\ gb_raised = "none"
    /\ gb_reads = 0

\* the builder as __build_graph reads it after __get_containers
GB_self(config, traefik) ==
    [host_name |-> config.host_name, host_label |-> config.host_label,
     color_scheme |-> config.color_scheme, traefik |-> traefik]

\* the builder after a read that found r and built g
GB_store(r, g) ==
    /\ gb_traefik' = r.traefik
    /\ gb_running' = r.running
    /\ gb_warnings' = r.warnings
    /\ gb_graph' = g.graph
    /\ gb_raised' = g.raised

\* __build_graph once __get_containers returned r
GB_build_graph(r) ==
    GB_store(r, GB_build(gb_graph, GB_self(gb_config, r.traefik), r.running))

\* GraphBuilder.graph
ReadGraph ==
    /\ gb_reads < MaxReads
    /\ GB_build_graph(GB_get_containers(engine, 1, gb_config.exclude,
            [running |-> <<>>, warnings |-> {}, traefik |-> gb_traefik]))
    /\ gb_reads' = gb_reads + 1
    /\ UNCHANGED <<setterVars, engine, reorders, infoVars, gb_config, botVars, styleVars>>

\* the engine lists its containers in another order
BuilderReorderContainers ==
    /\ reorders < MaxReorders
    /\ \E i \in 1..(Len(engine) - 1) : engine' = Swap(engine, i)
    /\ reorders' = reorders + 1
    /\ UNCHANGED <<setterVars, infoVars, builderVars, botVars, styleVars>>

\* the engine lists the networks of one container in another order
BuilderReorderNetworks ==
    /\ reorders < MaxReorders
    /\ \E c \in 1..Len(engine) : \E i \in 1..(Len(engine[c].Networks) - 1) :
          engine' = [engine EXCEPT ![c].Networks = Swap(@, i)]
    /\ reorders' = reorders + 1
    /\ UNCHANGED <<setterVars, infoVars, builderVars, botVars, styleVars>>

NextBuilder == ReadGraph \/ BuilderReorderContainers \/ BuilderReorderNetworks

SpecBuilder == InitBuilder /\ [][NextBuilder]_vars

(***************************************************************************)
(* SpecBot: GraphBot.build over the configured hosts.  bot_env[i] is the   *)
(* engine of the i-th configured host: whether its ping answers and what   *)
(* its containers.list() answers.                                          *)
(***************************************************************************)
MaxHosts == 2

N_A == <<"a">>
N_A_B == <<"a", "_", "b">>
H_B_C == <<"b", "_", "c">>
S_ORGANIZATION == <<"o", "r", "g">>
S_LEGEND == <<"l", "e", "g", "e", "n", "d">>
S_DOT == <<".", "d", "o", "t">>
S_PNG == <<".", "p", "n", "g">>
S_ADDRESS == <<"1">>
S_NOW == <<"t">>

\* d[key] = value on a dict
DictPut(d, key, value) ==
    IF HasKey(d, key)
    THEN [i \in 1..Len(d) |-> IF d[i][1] = key THEN <<key, value>> ELSE d[i]]
    ELSE Append(d, <<key, value>>)

\* the values of a dict in order
DictValues(d) == [i \in 1..Len(d) |-> d[i][2]]

\* what the engine of a host may list: nothing, or one container
BotListings ==
    { <<>>, <<Container(N_A, <<I_NGINX>>, <<>>, <<>>)>>,
      <<Container(N_A_B, <<I_NGINX>>, <<>>, <<>>)>> }

BotHosts == { [name |-> n, exclude |-> {}] : n \in {H_C, H_B_C} }

BotEnvs == { [reachable |-> r, listing |-> l] : r \in BOOLEAN, l \in BotListings }

\* GraphBot.__check_config on a configuration: the schema error of line
\* 237, or the return of line 234, which ends the call before the host
\* names are compared (lines 242-245 are never run)
BOT_check_config(schema_valid, config) ==
    IF schema_valid THEN "none" ELSE "ValidationError"

\* GraphBot.__init__: the configuration passed __check_config, whose return
\* at line 234 leaves the host names unchecked
InitBot ==
    /\ SetterIdle
    /\ InfoIdle
    /\ StyleIdle
    /\ BuilderIdle
    /\ engine = <<>>
    /\ reorders = 0
    /\ \E n \in 1..MaxHosts :
       \E hosts \in [1..n -> BotHosts] :
       \E merge \in BOOLEAN :
       \E color_scheme \in {AllColors, AllColors \ {"container"}} :
       \E actions \in {<<>>, <<"webdav">>} :
            bot_config = [hosts |-> hosts, merge |-> merge,
                          color_scheme |-> color_scheme, actions |-> actions]
    /\ BOT_check_config(TRUE, bot_config) = "none"
    /\ bot_env \in [1..Len(bot_config.hosts) -> BotEnvs]
    /\ bot_pc = "start"
    /\ bot_i = 0
    /\ bot_graphs = <<>>
    /\ bot_log = <<>>
    /\ bot_handed = <<>>
    /\ bot_rendered = <<>>
    /\ bot_files = <<>>
    /\ bot_uploaded = <<>>

\* lines 182-215: the label of a host
BOT_host_label(host) ==
    host.name \o <<" ", "(">> \o S_ADDRESS \o <<")", " ", "a", "t", " ">> \o S_NOW

\* lines 220-227: the builder's graph, read once, as [name, body, raised]
BOT_builder_graph(label, g) ==
    [name |-> label, body |-> g.graph, raised |-> g.raised]

\* lines 220-227 with the containers r the new builder finds
BOT_builder(config, host, r) ==
    BOT_builder_graph(BOT_host_label(host),
        GB_build(EmptyGraph,
                 [host_name |-> host.name, host_label |-> BOT_host_label(host),
                  color_scheme |-> config.color_scheme, traefik |-> r.traefik],
                 r.running))

\* GraphBot.__build_subgraph
BOT_build_subgraph(config, host, env) ==
    IF ~env.reachable
    \* line 219: docker_client.ping()
    THEN [name |-> BOT_host_label(host), body |-> EmptyGraph, raised |-> "APIError"]
    ELSE BOT_builder(config, host,
            GB_get_containers(env.listing, 1, host.exclude,
                [running |-> <<>>, warnings |-> {}, traefik |-> None]))

\* lines 87-115
BuildStart ==
    /\ bot_pc = "start"
    /\ bot_pc' = "hosts"
    /\ bot_i' = 1
    /\ bot_graphs' = <<>>
    /\ UNCHANGED <<setterVars, engine, reorders, infoVars, builderVars, styleVars,
                   bot_config, bot_env, bot_log, bot_handed, bot_rendered,
                   bot_files, bot_uploaded>>

\* lines 117-126 for a host whose pipeline ended in g
BOT_host_done(host, g) ==
    /\ bot_graphs' = IF g.raised = "none"
                     THEN DictPut(bot_graphs, host.name,
                                  [name |-> g.name, body |-> g.body])
                     ELSE bot_graphs
    /\ bot_log' = Append(bot_log,
                    [name |-> host.name, raised |-> g.raised,
                     graph |-> [name |-> g.name, body |-> g.body]])

\* lines 116-126: one turn of the loop over the hosts
BuildHost ==
    /\ bot_pc = "hosts"
    /\ bot_i <= Len(bot_config.hosts)
    /\ BOT_host_done(bot_config.hosts[bot_i],
            BOT_build_subgraph(bot_config, bot_config.hosts[bot_i], bot_env[bot_i]))
    /\ bot_i' = bot_i + 1
    /\ UNCHANGED <<setterVars, engine, reorders, infoVars, builderVars, styleVars,
                   bot_config, bot_env, bot_pc, bot_handed, bot_rendered,
                   bot_files, bot_uploaded>>

\* lines 132-156: the render calls as [path, graphs], legend last
BOT_renders(graphs, merge) ==
    (IF merge
     THEN <<[path |-> S_ORGANIZATION \o S_DOT, graphs |-> DictValues(graphs)]>>
     ELSE [i \in 1..Len(graphs) |->
            [path |-> graphs[i][1] \o S_DOT, graphs |-> <<graphs[i][2]>>]])
    \o <<[path |-> S_LEGEND \o S_DOT, graphs |-> <<>>]>>

\* the files appended to __generated_files: one per render call
BOT_files(renders) == [i \in 1..Len(renders) |-> renders[i].path \o S_PNG]

\* line 127: GraphBot.__render_graph(graphs)
RenderGraph ==
    /\ bot_pc = "hosts"
    /\ bot_i > Len(bot_config.hosts)
    /\ bot_handed' = bot_graphs
    /\ bot_rendered' = bot_rendered \o BOT_renders(bot_graphs, bot_config.merge)
    /\ bot_files' = bot_files \o BOT_files(BOT_renders(bot_graphs, bot_config.merge))
    /\ bot_pc' = "post"
    /\ UNCHANGED <<setterVars, engine, reorders, infoVars, builderVars, styleVars,
                   bot_config, bot_env, bot_i, bot_graphs, bot_log, bot_uploaded>>

\* line 128: GraphBot.__post_actions()
PostActions ==
    /\ bot_pc = "post"
    /\ bot_uploaded' = bot_uploaded \o
          [i \in 1..Len(bot_config.actions) |->
              [type |-> bot_config.actions[i], files |-> bot_files]]
    /\ bot_pc' = "done"
    /\ UNCHANGED <<setterVars, engine, reorders, infoVars, builderVars, styleVars,
                   bot_config, bot_env, bot_i, bot_graphs, bot_log, bot_handed,
                   bot_rendered, bot_files>>

NextBot == BuildStart \/ BuildHost \/ RenderGraph \/ PostActions

SpecBot == InitBot /\ [][NextBot]_vars

(***************************************************************************)
(* SpecStyle: one host of GraphBot.build whose builder asks __get_style    *)
(* for the style of an element                                             *)
(***************************************************************************)
\* a value that is no member of GraphElement
E_OTHER == "OTHER"

\* the colour schemes of a configuration: every key, or all but one
StyleSchemes == {AllColors} \cup { AllColors \ {key} : key \in AllColors }

\* the loop of GraphBot.build reaches a host, whose builder will ask for
\* the style of an element
InitStyle ==
    /\ SetterIdle
    /\ engine = <<>>
    /\ reorders = 0
    /\ InfoIdle
    /\ BuilderIdle
    /\ BotIdle
    /\ gs_element \in GraphElement \cup {E_OTHER}
    /\ gs_scheme \in StyleSchemes
    /\ gs_style = [raised |-> "idle", style |-> <<>>]
    /\ gs_host = "building"

\* the builder calls __get_style
GetStyle ==
    /\ gs_host = "building"
    /\ gs_style.raised = "idle"
    /\ gs_style' = GB_get_style(gs_scheme, gs_element)
    /\ UNCHANGED <<setterVars, engine, reorders, infoVars, builderVars, botVars,
                   gs_element, gs_scheme, gs_host>>

\* render.py lines 117-126: the graph of the host is kept when nothing was
\* raised; an exception of the pipeline is logged and the loop goes on
BuildHandles ==
    /\ gs_host = "building"
    /\ gs_style.raised # "idle"
    /\ gs_host' = IF gs_style.raised = "none" THEN "built" ELSE "skipped"
    /\ UNCHANGED <<setterVars, engine, reorders, infoVars, builderVars, botVars,
                   gs_element, gs_scheme, gs_style>>

\* render.py line 127: the loop is over and the graphs are rendered
RenderAfter ==
    /\ gs_host \in {"built", "skipped"}
    /\ gs_host' = IF gs_host = "built" THEN "rendered" ELSE "rendered without"
    /\ UNCHANGED <<setterVars, engine, reorders, infoVars, builderVars, botVars,
                   gs_element, gs_scheme, gs_style>>

NextStyle == GetStyle \/ BuildHandles \/ RenderAfter

SpecStyle == InitStyle /\ [][NextStyle]_vars

(***************************************************************************)
(* Properties of the backend_port setter (SpecSetter)                      *)
(***************************************************************************)
\* what an object holds after value was assigned to its backend_port
Normalized(stored, value) ==
    /\ value = None => stored = None
    /\ stored # None => StrIn(SLASH, stored)
    /\ value # None /\ ~StrIn(SLASH, value) => stored = value \o TCP_SUFFIX
    /\ value # None /\ StrIn(SLASH, value) => stored = value
    /\ value = S8080 => stored = S8080tcp
    /\ value = S8080udp => stored = S8080udp

\* C7: a stored backend port that is not None has a transport suffix: a
\* value without '/' is stored with '/tcp' appended ("8080" as "8080/tcp"),
\* a value with a suffix is stored as it is ("8080/udp"), and assigning a
\* stored value again stores the same value.  Both ContainerInfos classes.
C7_SetterNormalizes ==
    /\ Normalized(di_obj.backend_port, set_arg)
    /\ Normalized(gb_obj.backend_port, set_arg)
    /\ DI_backend_port_setter(di_obj.backend_port) = di_obj.backend_port
    /\ GB_backend_port_setter(gb_obj.backend_port) = gb_obj.backend_port

\* "8080" was assigned and "8080/tcp" is stored
C7_Witness ==
    /\ set_arg = S8080
    /\ di_obj.backend_port = S8080tcp
    /\ gb_obj.backend_port = S8080tcp

(***************************************************************************)
(* Properties of DockerInfo.update_containers (SpecInfo)                   *)
(***************************************************************************)
\* the listed container of a name (names are unique on a host)
EngineCont(name) == CHOOSE c \in Range(engine) : c.name = name

\* the last call returned its list
DI_Returned == di_listed /\ di_raised = "none"

\* the values of the per-service port labels of a label dict
ServicePortValues(labels) ==
    { labels[i][2] : i \in { k \in 1..Len(labels) : MatchServicePort(labels[k][1]) } }

\* the hostnames the per-router rule labels of a label dict yield
RouterHosts(labels) ==
    { SearchHost(labels[i][2]) :
        i \in { k \in 1..Len(labels) :
                  MatchRouterRule(labels[k][1]) /\ SearchHost(labels[k][2]) # None } }

\* C5 for one entity and the labels of its container
TwoTierPort(info, labels) ==
    /\ DictGet(labels, K_PORT) # None =>
          info.backend_port = DI_backend_port_setter(DictGet(labels, K_PORT))
    /\ DictGet(labels, K_PORT) = None /\ ServicePortValues(labels) # {} =>
          info.backend_port \in
              { DI_backend_port_setter(v) : v \in ServicePortValues(labels) }

\* C5: a container with a routing URL gets the normalized value of its
\* traefik.port label, and without that label the normalized value of a
\* per-service port label, whatever its other labels and their order.
C5_TwoTierBackendPort ==
    DI_Returned =>
        \A k \in 1..Len(di_containers) :
            di_containers[k].url # None =>
                TwoTierPort(di_containers[k],
                            EngineCont(di_containers[k].name).labels)

\* a routing URL and neither the legacy nor a per-service port label
NoExplicitPort(info, labels) ==
    /\ info.url # None
    /\ DictGet(labels, K_PORT) = None
    /\ ServicePortValues(labels) = {}

\* C6 for one entity and the labels of its container
DefaultPortAndWarning(info, labels) ==
    /\ NoExplicitPort(info, labels) => info.backend_port = TRAEFIK_DEFAULT_PORT
    /\ NoExplicitPort(info, labels)
          <=> Warning("no_backend_port", info.name) \in di_warnings

\* C6: a container with a routing URL and no explicit backend port gets the
\* default ingress port with its transport suffix, and the warning naming
\* the container is logged in exactly that case.
C6_DefaultPortWarned ==
    DI_Returned =>
        \A k \in 1..Len(di_containers) :
            DefaultPortAndWarning(di_containers[k],
                                  EngineCont(di_containers[k].name).labels)

\* C8 for one entity, its labels and its frontend-rule label v1
UrlByPriority(info, labels, v1) ==
    /\ v1 # None => info.url = DI_url_setter(v1)
    /\ v1 = None /\ RouterHosts(labels) # {} => info.url \in RouterHosts(labels)
    /\ v1 = None /\ RouterHosts(labels) = {} =>
          info.url = None /\ info.backend_port = None

\* C8: the URL of a returned entity comes from the frontend-rule label when
\* the container has one (the per-router labels are then ignored), else it
\* is the hostname of a per-router rule label, else it is None and no
\* backend port is resolved.
C8_UrlPriority ==
    DI_Returned =>
        \A k \in 1..Len(di_containers) :
            UrlByPriority(di_containers[k],
                          EngineCont(di_containers[k].name).labels,
                          DictGet(EngineCont(di_containers[k].name).labels,
                                  K_FRONTEND_RULE))

\* two returned entities: the container of the first has both conventions
\* and its URL is the frontend rule's, the second has no URL and no port
C8_Witness ==
    /\ DI_Returned
    /\ Len(di_containers) = 2
    /\ DictGet(EngineCont(di_containers[1].name).labels, K_FRONTEND_RULE) # None
    /\ RouterHosts(EngineCont(di_containers[1].name).labels) # {}
    /\ di_containers[1].url = <<"a", "/", "x">>
    /\ di_containers[2].url = None
    /\ di_containers[2].backend_port = None

\* C9: update_containers never ends with an exception, whatever the label
\* values and the ports of the listed containers.
C9_NeverRaises == di_raised = "none"

\* an entity with dicts as sets of items (dict equality ignores order)
Entity(info) ==
    [info EXCEPT !.ports = Range(@), !.bind_mounts = Range(@),
                 !.volumes = Range(@)]

\* the set of entities of a container list
Entities(containers) == { Entity(containers[k]) : k \in 1..Len(containers) }

\* C10: a pass over the same containers, in whatever enumeration order,
\* returns the same set of entities as the pass before it.
C10_OrderIndependent ==
    [][DI_Returned /\ di_raised' = "none" =>
         Entities(di_containers') = Entities(di_containers)]_vars

(***************************************************************************)
(* Properties of GraphBuilder (SpecBuilder)                                *)
(***************************************************************************)
\* C2: in the graph of one host, two nodes with the same identifier are the
\* same entity: they have the same kind (container, routing URL, host port)
\* and the same label, so no two distinct entities share an identifier.
C2_UniqueNodeIds ==
    \A i, j \in 1..Len(gb_graph.nodes) :
        gb_graph.nodes[i].id = gb_graph.nodes[j].id =>
            /\ gb_graph.nodes[i].kind = gb_graph.nodes[j].kind
            /\ gb_graph.nodes[i].label = gb_graph.nodes[j].label

\* C4: every container entity __get_containers returned has a backend port
\* exactly when it has a routing URL.
C4_BackendPortIffUrl ==
    \A k \in 1..Len(gb_running) :
        (gb_running[k].backend_port = None) <=> (gb_running[k].url = None)

(***************************************************************************)
(* Properties of GraphBot.build (SpecBot)                                  *)
(***************************************************************************)
\* the identifiers of the nodes of a graph
NodeIds(graph) == { graph.body.nodes[i].id : i \in 1..Len(graph.body.nodes) }

\* C1: build runs the pipeline of every configured host, whichever hosts
\* fail, and the dict handed to rendering holds the graph of every host
\* whose pipeline did not raise, and nothing for a host whose pipeline did.
C1_FailureIsolation ==
    bot_pc \in {"post", "done"} =>
        /\ Len(bot_log) = Len(bot_config.hosts)
        /\ \A k \in 1..Len(bot_log) :
              bot_log[k].raised = "none" =>
                  <<bot_log[k].name, bot_log[k].graph>> \in Range(bot_handed)
        /\ \A j \in 1..Len(bot_handed) :
              \E k \in 1..Len(bot_log) :
                  /\ bot_log[k].raised = "none"
                  /\ bot_handed[j] = <<bot_log[k].name, bot_log[k].graph>>

\* C3: the graphs built for two hosts of distinct names have no node
\* identifier in common.
C3_NoCrossHostCollision ==
    \A k, l \in 1..Len(bot_log) :
        /\ bot_log[k].raised = "none"
        /\ bot_log[l].raised = "none"
        /\ bot_log[k].name # bot_log[l].name
        => NodeIds(bot_log[k].graph) \cap NodeIds(bot_log[l].graph) = {}

(***************************************************************************)
(* Properties of DockerInfo.update_containers on attributes (SpecAttrs)    *)
(***************************************************************************)
\* how many entities of a container list carry a name
EntitiesNamed(containers, name) ==
    Cardinality({ k \in 1..Len(containers) : containers[k].name = name })

\* C11: once update_containers was called, its list holds exactly one
\* entity for every listed container that is running and has an image tag,
\* and none for a container that is not running or has no image tag.
C11_OneEntityPerSelected ==
    di_listed =>
        \A c \in Range(engine) :
            EntitiesNamed(di_containers, c.name) =
                IF c.status = "running" /\ Len(c.tags) > 0 THEN 1 ELSE 0

\* d[key] of a dict that has the key
DictAt(d, key) == d[CHOOSE i \in 1..Len(d) : d[i][1] = key][2]

\* C12 for one entity and the Ports the engine reports for its container
PortsKept(info, Ports) ==
    /\ DictKeys(info.ports) = DictKeys(Ports)
    /\ \A i \in 1..Len(Ports) :
          DictAt(info.ports, Ports[i][1]) =
              IF Ports[i][2] = None THEN {} ELSE Range(Ports[i][2])

\* C12: every exposed port the engine reports for an extracted container is
\* a key of its ports: an unpublished port maps to the empty set and a port
\* published on several host ports maps to the set of all of them.
C12_PortsKept ==
    \A k \in 1..Len(di_containers) :
        PortsKept(di_containers[k], EngineCont(di_containers[k].name).Ports)

\* an entity with a port published on two host ports and an unpublished one
C12_Witness ==
    /\ di_listed
    /\ \E k \in 1..Len(di_containers) :
          /\ HasKey(di_containers[k].ports, S8080_TCP)
          /\ DictAt(di_containers[k].ports, S8080_TCP) = {S8080, S8081}
          /\ HasKey(di_containers[k].ports, TRAEFIK_DEFAULT_PORT)
          /\ DictAt(di_containers[k].ports, TRAEFIK_DEFAULT_PORT) = {}

\* the destinations of the mounts of a type whose key field has a value
Destinations(Mounts, type, key) ==
    { Mounts[i].Destination :
        i \in { j \in 1..Len(Mounts) :
                  /\ Mounts[j].Type = type
                  /\ (IF type = "bind" THEN Mounts[j].Source ELSE Mounts[j].Name) = key } }

\* the keys of the mounts of a type: the source of a bind, the name of a volume
MountKeys(Mounts, type) ==
    { (IF type = "bind" THEN Mounts[i].Source ELSE Mounts[i].Name) :
        i \in { j \in 1..Len(Mounts) : Mounts[j].Type = type } }

\* a mapping holds one key per source of the type, with all its destinations
Classified(mapping, Mounts, type) ==
    /\ Len(mapping) = Cardinality(MountKeys(Mounts, type))
    /\ Range(mapping) =
          { <<key, Destinations(Mounts, type, key)>> : key \in MountKeys(Mounts, type) }

\* some mount is neither a bind nor a volume
OtherMount(Mounts) ==
    \E i \in 1..Len(Mounts) : Mounts[i].Type \notin {"bind", "volume"}

\* C14: for every extracted container, bind_mounts maps every bind source
\* to the set of its destinations, volumes maps every volume name to the set
\* of its destinations, a mount of another type is in neither and a warning
\* is logged for it.
C14_MountsClassified ==
    /\ \A k \in 1..Len(di_containers) :
          /\ Classified(di_containers[k].bind_mounts,
                        EngineCont(di_containers[k].name).Mounts, "bind")
          /\ Classified(di_containers[k].volumes,
                        EngineCont(di_containers[k].name).Mounts, "volume")
          /\ OtherMount(EngineCont(di_containers[k].name).Mounts) =>
                Warning("unknown_mount", di_containers[k].name) \in di_warnings
    /\ \A c \in Range(engine) :
          Warning("unknown_mount", c.name) \in di_warnings => OtherMount(c.Mounts)

\* an entity of a container with two binds of /srv, a volume and a tmpfs
C14_Witness ==
    /\ di_listed
    /\ \E k \in 1..Len(di_containers) :
          /\ di_containers[k].bind_mounts = << <<P_SRV, {P_A, P_B}>> >>
          /\ di_containers[k].volumes = << <<VOL_DATA, {P_A}>> >>
          /\ Len(EngineCont(di_containers[k].name).Mounts) = 4
          /\ Warning("unknown_mount", di_containers[k].name) \in di_warnings

\* the names of the networks the engine reports for a container
NetworkNames(Networks) == { Networks[i][1] : i \in 1..Len(Networks) }

\* the raw link specifiers of every network of a container
RawLinks(Networks) ==
    UNION { Range(Networks[i][2]) :
              i \in { j \in 1..Len(Networks) : Networks[j][2] # None } }

\* a raw link specifier cut at its first ':'
BaseName(link) ==
    IF Find(link, S_COLON) = 0 THEN link
    ELSE SubSeq(link, 1, Find(link, S_COLON) - 1)

\* a listed container that update_containers looks at
Extracted(c) == c.status = "running" /\ Len(c.tags) > 0

\* the first colon-delimited segment of some image tag is the proxy image
ProxyImage(c) == \E t \in 1..Len(c.tags) : BaseName(c.tags[t]) = S_TRAEFIK

\* C15: after a call that returned, when some extracted container has an
\* image tag whose first segment is traefik, traefik_container is the name
\* of such a container and traefik_source_port its first exposed port; when
\* there is none, traefik_container is empty.
C15_ProxyRecorded ==
    DI_Returned =>
        IF \E c \in Range(engine) : Extracted(c) /\ ProxyImage(c)
        THEN \E c \in Range(engine) :
                /\ Extracted(c) /\ ProxyImage(c)
                /\ di_traefik_container = c.name
                /\ Len(c.Ports) > 0
                /\ di_traefik_source_port = c.Ports[1][1]
        ELSE di_traefik_container = <<>>

(***************************************************************************)
(* Properties of GraphBuilder.__get_containers (SpecBuilder)               *)
(***************************************************************************)
\* C13: the networks of every entity __get_containers returned are all the
\* networks the engine reports for its container, and its links are the
\* base names of the raw link specifiers of all these networks.
C13_AllNetworksAndLinks ==
    \A k \in 1..Len(gb_running) :
        /\ {gb_running[k].network} =
              NetworkNames(EngineCont(gb_running[k].name).Networks)
        /\ gb_running[k].links =
              { BaseName(l) :
                  l \in RawLinks(EngineCont(gb_running[k].name).Networks) }

\* C16: a container is placed in the cluster of one network, the same one
\* in whatever order the engine enumerates its networks: a read of graph
\* that follows an earlier read places every container in the network the
\* earlier read placed it in.
C16_PlacementOrderIndependent ==
    [][gb_reads >= 1 /\ gb_reads' = gb_reads + 1 =>
         \A k \in 1..Len(gb_running) : \A l \in 1..Len(gb_running') :
             gb_running[k].name = gb_running'[l].name =>
                 gb_running[k].network = gb_running'[l].network]_vars

\* the containers of the listing that __get_containers selects
SelectedConts ==
    { c \in Range(engine) : GB_selected(c, gb_config.exclude) }

\* the bind mounts and volumes of a listed container
TrackedMounts(c) ==
    { i \in 1..Len(c.Mounts) : c.Mounts[i].Type \in {"bind", "volume"} }

\* the source of a mount: the host path of a bind mount, the volume's name
SourceOf(m) == IF m.Type = "bind" THEN m.Source ELSE m.Name

MountSources ==
    UNION { { SourceOf(c.Mounts[i]) : i \in TrackedMounts(c) } : c \in SelectedConts }

MountPoints ==
    UNION { { <<c.name, c.Mounts[i].Destination>> : i \in TrackedMounts(c) } :
            c \in SelectedConts }

MountKinds == {"VOLUME", "BIND_MOUNT"}

\* how many nodes of a mount kind carry a label
MountNodesLabelled(graph, label) ==
    Cardinality({ i \in 1..Len(graph.nodes) :
                    /\ graph.nodes[i].kind \in MountKinds
                    /\ graph.nodes[i].label = label })

\* C17: the graph a read builds has exactly one source node per mount source
\* of the selected containers, one mount-point node per (destination,
\* container) pair, and two edges per mount-point node (to its container and
\* to its source).
C17_MountNodesAndEdges ==
    gb_reads = 1 /\ gb_raised = "none" =>
        /\ \A src \in MountSources : MountNodesLabelled(gb_graph, src) = 1
        /\ Cardinality({ i \in 1..Len(gb_graph.nodes) :
                           gb_graph.nodes[i].kind \in MountKinds })
             = Cardinality(MountSources) + Cardinality(MountPoints)
        /\ Cardinality({ i \in 1..Len(gb_graph.edges) :
                           gb_graph.edges[i].kind \in MountKinds })
             = 2 * Cardinality(MountPoints)

\* a routing edge of a graph from tail to head
RoutingEdge(graph, tail, head) ==
    \E i \in 1..Len(graph.edges) :
        /\ graph.edges[i].kind = "TRAEFIK"
        /\ graph.edges[i].tail = tail
        /\ graph.edges[i].head = head

\* the URL node identifiers of the routed containers a read returned
UrlNodeIds ==
    { GB_node_name(gb_config.host_name, gb_running[k].url, None) :
        k \in { j \in 1..Len(gb_running) : gb_running[j].url # None } }

\* C18: the graph a read builds has routing edges and URL nodes only when a
\* proxy was found and only for containers with a routing URL; for each such
\* container it has an edge from the proxy's sub-node for the proxy's first
\* exposed port to the container's URL node, and an edge from that URL node
\* to the container's sub-node for its backend port.
C18_RoutingPath ==
    gb_reads = 1 /\ gb_raised = "none" =>
        /\ \A i \in 1..Len(gb_graph.nodes) :
              gb_graph.nodes[i].kind = "TRAEFIK" =>
                  gb_traefik # None /\ gb_graph.nodes[i].id \in UrlNodeIds
        /\ \A i \in 1..Len(gb_graph.edges) :
              gb_graph.edges[i].kind = "TRAEFIK" =>
                  /\ gb_traefik # None
                  /\ \/ gb_graph.edges[i].head \in UrlNodeIds
                     \/ gb_graph.edges[i].tail \in UrlNodeIds
        /\ \A k \in 1..Len(gb_running) : \A c \in Range(engine) :
              /\ gb_running[k].url # None
              /\ c.name = gb_traefik
              /\ Len(c.Ports) > 0
              => /\ RoutingEdge(gb_graph,
                       GB_node_name(gb_config.host_name, gb_traefik, c.Ports[1][1]),
                       GB_node_name(gb_config.host_name, gb_running[k].url, None))
                 /\ RoutingEdge(gb_graph,
                       GB_node_name(gb_config.host_name, gb_running[k].url, None),
                       GB_node_name(gb_config.host_name, gb_running[k].name,
                                    gb_running[k].backend_port))

(***************************************************************************)
(* Properties of GraphBuilder.__get_style and its caller (SpecStyle)       *)
(***************************************************************************)
\* C19: __get_style returns a style for every member of GraphElement whose
\* colours the scheme holds and raises for any other value, and the loop of
\* build neither skips the host of such a request nor ends it normally.
C19_InvalidStyleFatal ==
    /\ gs_style.raised # "idle" =>
          /\ gs_element \in GraphElement /\ StyleKeys(gs_element) \subseteq gs_scheme
               => gs_style.raised = "none" /\ Len(gs_style.style) > 0
          /\ gs_element \notin GraphElement => gs_style.raised = "Exception"
    /\ gs_element \notin GraphElement =>
          gs_host \notin {"built", "skipped", "rendered", "rendered without"}

\* the default colours GraphBot documents for the keys of a colour scheme
DefaultColor(key) ==
    CASE key = "traefik" -> "#edb591"
      [] key = "port" -> "#86c49b"
      [] key = "link" -> "#75e9cd"
      [] key = "image" -> "#e1efe6"
      [] key = "container" -> "#ffffff"
      [] key = "network" -> "#ffffff"
      [] key = "host" -> "#e1efe6"
      [] key = "volume" -> "#819cd9"
      [] key = "bind_mount" -> "#b19cd9"
      [] key = "dark_text" -> "#32384f"
      [] OTHER -> "none"

\* the attribute a style holds for an attribute of the style dict: the
\* scheme's colour, or the default colour of a key the scheme lacks
Defaulted(scheme, attr) ==
    IF attr[2][1] = "color_scheme" /\ attr[2][2] \notin scheme
    THEN <<attr[1], Literal(DefaultColor(attr[2][2]))>>
    ELSE attr

\* C20: under every colour scheme, the request for the style of a member of
\* GraphElement succeeds, a colour whose key the scheme lacks is the default
\* colour of that key, and the host's graph does not fail to build.
C20_MissingColorDefaults ==
    gs_element \in GraphElement =>
        /\ gs_style.raised # "idle" =>
              /\ gs_style.raised = "none"
              /\ \A i \in 1..Len(gs_style.style) :
                    gs_style.style[i] =
                        Defaulted(gs_scheme, GB_style_dict(gs_element)[i])
        /\ gs_host \notin {"skipped", "rendered without"}

(***************************************************************************)
(* Properties of GraphBot.__init__ (SpecBot)                               *)
(***************************************************************************)
\* C21: no GraphBot whose construction ended has two configured hosts of
\* the same name, so that build never runs over such a configuration.
C21_NoDuplicateHostNames ==
    bot_pc \in {"hosts", "post", "done"} =>
        \A i, j \in 1..Len(bot_config.hosts) :
            i # j => bot_config.hosts[i].name # bot_config.hosts[j].name

(***************************************************************************)
(* Properties of DockerInfo across discovery passes (SpecPasses)           *)
(***************************************************************************)
\* what update_containers leaves on a DockerInfo that was just constructed
FreshPass ==
    DI_update(engine, 1,
        [containers |-> <<>>, traefik_container |-> <<>>,
         traefik_source_port |-> <<>>, warnings |-> {}, raised |-> "none"])

\* C22: a call of update_containers that ends without exception, after a
\* call that ended without exception, leaves the container list,
\* traefik_container and traefik_source_port that a pass on a new DockerInfo
\* leaves for the same engine answer, whatever the passes before it found.
C22_FreshEveryPass ==
    [][engine' = engine /\ di_raised = "none" /\ di_raised' = "none" =>
          /\ di_containers' = FreshPass.containers
          /\ di_traefik_container' = FreshPass.traefik_container
          /\ di_traefik_source_port' = FreshPass.traefik_source_port]_vars

(***************************************************************************)
(* Properties of GraphBuilder.graph across reads (SpecBuilder)             *)
(***************************************************************************)
\* C23: on an engine that never changed, a read of graph that follows an
\* earlier read leaves the clusters, nodes and edges of the builder's graph
\* as the earlier read left them.
C23_ReadAddsNothing ==
    [][reorders = 0 /\ engine' = engine /\ gb_reads >= 1 /\ gb_reads' = gb_reads + 1
          => gb_graph' = gb_graph]_vars

\* C24: as long as no call raised, reads of the property containers call
\* update_containers at most once, the first time, also on a host without
\* running container.
C24_CreatedOnFirstAccessOnly == di_raised = "none" => di_get_queries <= 1

(***************************************************************************)
(* Properties of what one read of GraphBuilder.graph adds (SpecBuilder)    *)
(***************************************************************************)
\* what a step appended to a list
Added(before, after) == SubSeq(after, Len(before) + 1, Len(after))

\* the name of the cluster of a network or image of a host
ClusterNameOf(host_name, name) == S_CLUSTER \o name \o S_UNDERSCORE \o host_name

\* the record nodes of a container among nodes
RecordNodes(nodes, host_name, cont) ==
    { i \in 1..Len(nodes) :
        /\ nodes[i].kind = "CONTAINER"
        /\ nodes[i].id = cont.name \o S_UNDERSCORE \o host_name }

\* a cluster of that name and parent is among clusters
HasCluster(clusters, name, parent) ==
    \E i \in 1..Len(clusters) :
        clusters[i].name = name /\ clusters[i].parent = parent

\* node is the record node of cont, in the image cluster of its network
\* cluster, with a part for each exposed port
PlacedRecord(node, config, cont) ==
    /\ node.cluster = <<ClusterNameOf(config.host_name, cont.network),
                        ClusterNameOf(config.host_name, cont.image)>>
    /\ StrIn(<<"<">> \o cont.name \o <<">">>, node.label)
    /\ \A k \in 1..Len(cont.ports) :
          StrIn(<<"<">> \o cont.ports[k][1] \o <<">">>, node.label)

\* the nesting of the clusters of cont: image in network in host
NestedClusters(clusters, config, cont) ==
    /\ HasCluster(clusters, S_CLUSTER \o config.host_label, None)
    /\ HasCluster(clusters, ClusterNameOf(config.host_name, cont.network),
                  S_CLUSTER \o config.host_label)
    /\ HasCluster(clusters, ClusterNameOf(config.host_name, cont.image),
                  ClusterNameOf(config.host_name, cont.network))

\* what a read added for the containers running it found
OneRecordEach(nodes, clusters, config, running) ==
    \A k \in 1..Len(running) :
        /\ Cardinality(RecordNodes(nodes, config.host_name, running[k])) = 1
        /\ \A i \in RecordNodes(nodes, config.host_name, running[k]) :
              PlacedRecord(nodes[i], config, running[k])
        /\ NestedClusters(clusters, config, running[k])

\* C25: a read of graph that ends without exception adds, for each container
\* it found, exactly one record node, placed in the cluster of its image
\* inside the cluster of its network inside the host cluster, whose label
\* has a part for each exposed port; containers of the same image and
\* network get the same image cluster.
C25_OneRecordNodePerContainer ==
    [][gb_reads' = gb_reads + 1 /\ gb_raised' = "none" =>
          OneRecordEach(Added(gb_graph.nodes, gb_graph'.nodes),
                        Added(gb_graph.clusters, gb_graph'.clusters),
                        gb_config, gb_running')]_vars

\* a read found two containers of one image and network, one with a port,
\* and added a record node for each
C25_Witness ==
    /\ gb_reads = 1
    /\ gb_raised = "none"
    /\ Len(gb_running) = 2
    /\ gb_running[1].image = gb_running[2].image
    /\ gb_running[1].network = gb_running[2].network
    /\ Len(gb_running[1].ports) > 0
    /\ OneRecordEach(gb_graph.nodes, gb_graph.clusters, gb_config, gb_running)

\* the (container, exposed port, host port) triples of the containers found
PortPairs(running) ==
    UNION { UNION { { <<k, e, h>> : h \in running[k].ports[e][2] } :
                    e \in 1..Len(running[k].ports) } :
            k \in 1..Len(running) }

\* the port-mapping edges among edges
PortEdges(edges) == { i \in 1..Len(edges) : edges[i].kind = "PORT" }

\* the port-mapping edges from the node of host port h to the sub-node of
\* the exposed port of cont
PortEdgesOf(edges, host_name, cont, exposed, h) ==
    { i \in PortEdges(edges) :
        /\ edges[i].tail = h \o S_UNDERSCORE \o host_name
        /\ edges[i].head = cont.name \o S_UNDERSCORE \o host_name
                           \o S_COLON \o exposed }

\* a node of a host port is among nodes
HasPortNode(nodes, host_name, h) ==
    \E i \in 1..Len(nodes) :
        nodes[i].kind = "PORT" /\ nodes[i].id = h \o S_UNDERSCORE \o host_name

PortMappingDrawn(nodes, edges, host_name, running) ==
    /\ \A t \in PortPairs(running) :
          /\ HasPortNode(nodes, host_name, t[3])
          /\ Cardinality(PortEdgesOf(edges, host_name, running[t[1]],
                                     running[t[1]].ports[t[2]][1], t[3])) = 1
    /\ Cardinality(PortEdges(edges)) = Cardinality(PortPairs(running))

\* C26: a read of graph that ends without exception adds, for every
\* container it found and every (exposed port, host port) pair of its ports,
\* a node for the host port and exactly one edge from it to the container's
\* sub-node for the exposed port, and no other port-mapping edge, so none
\* for an unpublished port.
C26_PortMappingEdges ==
    [][gb_reads' = gb_reads + 1 /\ gb_raised' = "none" =>
          PortMappingDrawn(Added(gb_graph.nodes, gb_graph'.nodes),
                           Added(gb_graph.edges, gb_graph'.edges),
                           gb_config.host_name, gb_running')]_vars

\* a read found a container with a port published on two host ports and an
\* unpublished port, and drew the two mappings
C26_Witness ==
    /\ gb_reads = 1
    /\ gb_raised = "none"
    /\ Len(gb_running) = 1
    /\ Len(gb_running[1].ports) = 2
    /\ Cardinality(gb_running[1].ports[1][2]) = 2
    /\ gb_running[1].ports[2][2] = {}
    /\ PortMappingDrawn(gb_graph.nodes, gb_graph.edges, gb_config.host_name,
                        gb_running)

\* the self-referential sub-node of a container name on a host
SelfSubNode(host_name, name) ==
    name \o S_UNDERSCORE \o host_name \o S_COLON \o name

\* the (tail, head) pairs of the link edges among edges
LinkEdgePairs(edges) ==
    { <<edges[i].tail, edges[i].head>> :
        i \in { j \in 1..Len(edges) : edges[j].kind = "LINK" } }

\* the (tail, head) pairs the links sets of the containers found ask for
LinkPairs(host_name, running) ==
    UNION { { <<SelfSubNode(host_name, running[k].name),
                SelfSubNode(host_name, l)>> : l \in running[k].links } :
            k \in 1..Len(running) }

\* C27: a read of graph that ends without exception adds a link edge from
\* c's self-referential sub-node to l's for every container c it found and
\* every name l of c.links, and no other link edge.
C27_LinkEdges ==
    [][gb_reads' = gb_reads + 1 /\ gb_raised' = "none" =>
          LinkEdgePairs(Added(gb_graph.edges, gb_graph'.edges))
              = LinkPairs(gb_config.host_name, gb_running')]_vars

\* a read found a container with two links and drew both
C27_Witness ==
    /\ gb_reads = 1
    /\ gb_raised = "none"
    /\ \E k \in 1..Len(gb_running) : Cardinality(gb_running[k].links) = 2
    /\ LinkEdgePairs(gb_graph.edges) = LinkPairs(gb_config.host_name, gb_running)

(***************************************************************************)
(* Properties of GraphBuilder.__record_label (SpecBuilder)                 *)
(***************************************************************************)
\* the first index from i on where s holds the character c, or 0
IndexFrom(s, c, i) ==
    IF \E j \in i..Len(s) : s[j] = c
    THEN CHOOSE j \in i..Len(s) : s[j] = c /\ \A m \in i..(j - 1) : s[m] # c
    ELSE 0

RECURSIVE SubIds(_, _)
\* the sub-identifiers of a record label from i on: the texts between
\* '<' and the next '>', in order
SubIds(label, i) ==
    IF IndexFrom(label, "<", i) = 0 THEN <<>>
    ELSE IF IndexFrom(label, ">", IndexFrom(label, "<", i)) = 0 THEN <<>>
    ELSE <<SubSeq(label, IndexFrom(label, "<", i) + 1,
                  IndexFrom(label, ">", IndexFrom(label, "<", i)) - 1)>>
         \o SubIds(label, IndexFrom(label, ">", IndexFrom(label, "<", i)) + 1)

\* how many separators a label holds
Bars(label) == Cardinality({ i \in 1..Len(label) : label[i] = "|" })

\* label is the record label of name and ports: the name part first, then
\* a part per port in order, each tagged with its own text, a separator
\* before each port part and none after the last
RecordOf(label, name, ports) ==
    /\ SubIds(label, 1) = <<name>> \o ports
    /\ \A k \in 1..Len(ports) :
          StrIn(<<"<">> \o ports[k] \o <<">", " ">> \o ports[k], label)
    /\ StrIn(<<"<">> \o name \o <<">", " ">> \o name, label)
    /\ Bars(label) = Len(ports)
    /\ label[Len(label)] = "}"
    /\ Len(ports) = 0 => label = <<"{", " ", "<">> \o name \o <<">", " ">>
                                 \o name \o <<" ", "}">>

\* the exposed ports of an entity, in the order of its ports dict
ExposedPorts(cont) == [k \in 1..Len(cont.ports) |-> cont.ports[k][1]]

\* C28: the record label of every container node a read adds has the name
\* part first, then one part per exposed port in the order of the ports
\* list, each tagged with its own text; it is the single name part when the
\* container exposes no port, and it has no separator after its last part.
C28_RecordLabel ==
    [][gb_reads' = gb_reads + 1 /\ gb_raised' = "none" =>
          \A k \in 1..Len(gb_running') :
              \A i \in RecordNodes(Added(gb_graph.nodes, gb_graph'.nodes),
                                   gb_config.host_name, gb_running'[k]) :
                  RecordOf(Added(gb_graph.nodes, gb_graph'.nodes)[i].label,
                           gb_running'[k].name, ExposedPorts(gb_running'[k]))]_vars

\* a read added the record node of a container with two exposed ports
C28_Witness ==
    /\ gb_reads = 1
    /\ gb_raised = "none"
    /\ \E k \in 1..Len(gb_running) :
          /\ Len(gb_running[k].ports) = 2
          /\ \E i \in RecordNodes(gb_graph.nodes, gb_config.host_name, gb_running[k]) :
                RecordOf(gb_graph.nodes[i].label, gb_running[k].name,
                         ExposedPorts(gb_running[k]))

(***************************************************************************)
(* Properties of the edges of a host graph (SpecBuilder)                   *)
(***************************************************************************)
\* an edge endpoint names a node among nodes and, when it has a
\* sub-identifier, a part of the label of that node
EndpointExists(nodes, endpoint) ==
    \E i \in 1..Len(nodes) :
        /\ nodes[i].id = Split1(endpoint, S_COLON)[1]
        /\ Len(Split1(endpoint, S_COLON)) = 2 =>
              \E k \in 1..Len(SubIds(nodes[i].label, 1)) :
                  SubIds(nodes[i].label, 1)[k] = Split1(endpoint, S_COLON)[2]

\* C29: in the graph the first read builds, both endpoints of every edge
\* name a node of the graph, and a sub-node endpoint names a part of the
\* record label of that node.
C29_EdgeEndpointsExist ==
    gb_reads = 1 /\ gb_raised = "none" =>
        \A i \in 1..Len(gb_graph.edges) :
            /\ EndpointExists(gb_graph.nodes, gb_graph.edges[i].tail)
            /\ EndpointExists(gb_graph.nodes, gb_graph.edges[i].head)

(***************************************************************************)
(* Properties of the rendering of GraphBot.build (SpecBot)                 *)
(***************************************************************************)
\* the graphs of the hosts whose pipeline did not raise, in the order of
\* the loop
BuiltGraphs ==
    [k \in 1..Len(SelectSeq(bot_log, LAMBDA e : e.raised = "none")) |->
        SelectSeq(bot_log, LAMBDA e : e.raised = "none")[k].graph]

\* the graphs rendered, without the legend, which is rendered last
RenderedGraphs ==
    [k \in 1..(Len(bot_rendered) - 1) |-> bot_rendered[k].graphs]

\* C30: build renders once every host was processed and runs the
\* post-actions after rendering; with merge one graph holding every graph
\* built is rendered, without merge every graph built is rendered on its
\* own; the legend is rendered last, the generated files are one per
\* render, and every post-action is handed these files.
C30_RenderAfterAllHosts ==
    /\ bot_rendered # <<>> => Len(bot_log) = Len(bot_config.hosts)
    /\ bot_uploaded # <<>> => bot_rendered # <<>>
    /\ bot_pc \in {"post", "done"} =>
          /\ bot_rendered # <<>>
          /\ bot_rendered[Len(bot_rendered)].path = S_LEGEND \o S_DOT
          /\ RenderedGraphs = IF bot_config.merge THEN <<BuiltGraphs>>
                              ELSE [k \in 1..Len(BuiltGraphs) |-> <<BuiltGraphs[k]>>]
          /\ Len(bot_files) = Len(bot_rendered)
    /\ bot_pc = "done" =>
          /\ Len(bot_uploaded) = Len(bot_config.actions)
          /\ \A k \in 1..Len(bot_uploaded) : bot_uploaded[k].files = bot_files

====
